---- MODULE Spec2Model ----
(***************************************************************************)
(* Model of the OCR labeling tool: the labeler (page cache, OCR, save and  *)
(* reload of labeled documents) and the line editor (merge, delete, split, *)
(* ground-truth edits) of both front-ends, the notebook one ("ipynb") and  *)
(* the NiceGUI one ("nicegui").                                            *)
(*                                                                         *)
(* Texts are sequences of one-character strings, so that they can be cut   *)
(* and concatenated; " " is the blank.  Bounding boxes are kept in whole   *)
(* pixels of the page image (the normalized box times the image size).     *)
(***************************************************************************)
EXTENDS Integers, Sequences, FiniteSets, TLC

VARIABLES
    fe,                         \* front-end in use: "ipynb" or "nicegui"
    pgdp_export,                \* labeler.pgdp_export.pages: the png_file of every page
    current_page_idx,           \* labeler._current_page_idx
    current_page_name,          \* labeler.current_page_name
    matched_ocr_pages,          \* labeler.matched_ocr_pages: page index -> Page or NoPage
    json_files,                 \* labeled_ocr_path/<prefix>.json per page index
    png_files,                  \* labeled_ocr_path/<prefix>.png present, per page index
    detached_line,              \* the editor's Block once it was removed from the page
    line_matches,               \* editor.line_matches
    task_type,                  \* editor.task_type
    task_match_idx,             \* editor.task_match_idx
    split_task_x_coordinate,    \* editor.split_task_x_coordinate
    split_task_word_split_idx,  \* editor.split_task_word_split_idx
    edit_margins,               \* editor.edit_margins: left, top, right, bottom
    page_editor,                \* the page editor: filter, line editors, boxes and word buttons shown
    download,                   \* the project download: files on disk, position of the run
    ocr_runs,                   \* history: OCR engine invocations per page index
    saved_snapshot,             \* history: the page's lines at the last Save, per page index
    edits,                      \* history: number of editing handlers run so far
    last                        \* history: the handler that last wrote a line or the cache

vars == <<fe, pgdp_export, current_page_idx, current_page_name, matched_ocr_pages, json_files, png_files,
          detached_line, line_matches, task_type, task_match_idx,
          split_task_x_coordinate, split_task_word_split_idx, edit_margins,
          page_editor, download, ocr_runs, saved_snapshot, edits, last>>

\* what no handler of a line editor touches
storeFrame == <<pgdp_export, current_page_idx, current_page_name, json_files, png_files, ocr_runs,
                saved_snapshot, download>>

\* what the handlers of a line editor that do not call line_change_callback
\* leave alone
labelerFrame == <<storeFrame, page_editor>>

labelerVars == <<labelerFrame, matched_ocr_pages>>

taskVars == <<task_type, task_match_idx, split_task_x_coordinate,
              split_task_word_split_idx, edit_margins>>

----------------------------------------------------------------------------
(* Bounds of the model *)

\* number of pages of the project export
NumPages == 2

\* most words a line may hold after splits
MaxWords == 3

\* most OCR engine invocations counted per page index
MaxOcrRuns == 1

\* most editing handlers (merge, delete, ground-truth edit, split) run in one
\* behaviour
MaxEdits == 1

\* largest total of the four margins that the margin buttons of a
\* bounding-box edit task reach
MaxMargin == 2

\* number of pages of the project that is downloaded
ProjectPages == 3

----------------------------------------------------------------------------
(* Values *)

\* a word without "match_score" in ground_truth_match_keys
NoScore == 0 - 1

\* base_ground_truth_text is None
NoText == <<"None">>

PageIdxs == 0 .. (NumPages - 1)

\* the page image: its size in pixels, and the columns and rows that hold ink
\* (a pixel is ink when its column and its row both are)
ImageW == 8
ImageH == 4
InkCols == {0, 1, 2, 4, 5}
InkRows == {1, 2}

Min2(a, b) == IF a <= b THEN a ELSE b
Max2(a, b) == IF a >= b THEN a ELSE b

RECURSIVE SeqToSet(_)
SeqToSet(s) == IF s = <<>> THEN {} ELSE {Head(s)} \cup SeqToSet(Tail(s))

\* Python s[:k] and s[k:] for 0 <= k <= len(s)
Prefix(s, k) == SubSeq(s, 1, k)
Suffix(s, k) == SubSeq(s, k + 1, Len(s))

\* Python str.split(" "): cut at every single blank, empty pieces are kept,
\* and "" gives [""]
RECURSIVE SplitSpace(_)
SplitSpace(s) ==
    IF \A i \in 1 .. Len(s) : s[i] # " "
    THEN <<s>>
    ELSE LET k == CHOOSE i \in 1 .. Len(s) :
                      s[i] = " " /\ \A j \in 1 .. (i - 1) : s[j] # " "
         IN <<Prefix(s, k - 1)>> \o SplitSpace(Suffix(s, k))

SetMin(S) == CHOOSE x \in S : \A y \in S : x <= y
SetMax(S) == CHOOSE x \in S : \A y \in S : x >= y

\* sequence s without its element at position k
RemoveAt(s, k) == SubSeq(s, 1, k - 1) \o SubSeq(s, k + 1, Len(s))

\* sequence s with its element at position k replaced by the elements of r
ReplaceAt(s, k, r) == SubSeq(s, 1, k - 1) \o r \o SubSeq(s, k + 1, Len(s))

\* Python list.insert(pos, x) for pos >= 0: a position past the end appends
ListInsert(s, pos, x) ==
    LET p == Min2(pos, Len(s))
    IN SubSeq(s, 1, p) \o <<x>> \o SubSeq(s, p + 1, Len(s))

----------------------------------------------------------------------------
(* Geometry: BoundingBox                                                   *)

BBox(minX, minY, maxX, maxY) ==
    [minX |-> minX, minY |-> minY, maxX |-> maxX, maxY |-> maxY]

\* union of two boxes: min of mins, max of maxes
BBoxUnion(a, b) ==
    BBox(Min2(a.minX, b.minX), Min2(a.minY, b.minY),
         Max2(a.maxX, b.maxX), Max2(a.maxY, b.maxY))

RECURSIVE GrowDown(_, _, _)
\* lowest edge reached from e while the pixel line just below e holds ink
GrowDown(e, ink, lo) ==
    IF e > lo /\ (e - 1) \in ink THEN GrowDown(e - 1, ink, lo) ELSE e

RECURSIVE GrowUp(_, _, _)
\* highest edge reached from e while the pixel line at e holds ink
GrowUp(e, ink, hi) ==
    IF e < hi /\ e \in ink THEN GrowUp(e + 1, ink, hi) ELSE e

\* BoundingBox.expand_to_content(image)
ExpandToContent(b) ==
    BBox(GrowDown(b.minX, InkCols, 0), GrowDown(b.minY, InkRows, 0),
         GrowUp(b.maxX, InkCols, ImageW), GrowUp(b.maxY, InkRows, ImageH))

\* BoundingBox.refine(image, padding_px)
Refine(b, padding_px) ==
    LET cols == {x \in InkCols : b.minX <= x /\ x < b.maxX}
        rows == {y \in InkRows : b.minY <= y /\ y < b.maxY}
    IN IF cols = {} \/ rows = {}
       THEN b
       ELSE BBox(Max2(SetMin(cols) - padding_px, 0),
                 Max2(SetMin(rows) - padding_px, 0),
                 Min2(SetMax(cols) + 1 + padding_px, ImageW),
                 Min2(SetMax(rows) + 1 + padding_px, ImageH))

----------------------------------------------------------------------------
(* Word, and the ground-truth alignment engine                             *)

Word(text, bbox, gt, score) ==
    [text |-> text, bounding_box |-> bbox,
     ground_truth_text |-> gt, match_score |-> score]

\* Word.fuzz_score_against: 0..100, 100 exactly for equal texts
FuzzScore(text, gt) ==
    IF text = gt THEN 100
    ELSE IF SeqToSet(text) \cap SeqToSet(gt) # {} THEN 50
    ELSE 0

\* one step of the alignment at ocr[i], gt[j], given the best alignments p
\* after pairing the two, o after leaving the OCR word alone and g after
\* leaving the ground-truth word alone: a word pair counts its score, a word
\* left alone counts nothing; ties prefer the pair, then leaving the OCR
\* word alone.  A ground-truth word left alone is recorded with the number
\* of OCR words before it.
AlignStep(ocr, gt, i, j, p, o, g) ==
    LET s == FuzzScore(ocr[i], gt[j])
        pairTotal == IF s > 0 THEN s + p.total ELSE 0 - 1
    IN IF pairTotal >= o.total /\ pairTotal >= g.total
       THEN [total |-> pairTotal, gts |-> <<gt[j]>> \o p.gts,
             scores |-> <<s>> \o p.scores, unmatched |-> p.unmatched]
       ELSE IF o.total >= g.total
       THEN [total |-> o.total, gts |-> << <<>> >> \o o.gts,
             scores |-> <<NoScore>> \o o.scores, unmatched |-> o.unmatched]
       ELSE [total |-> g.total, gts |-> g.gts, scores |-> g.scores,
             unmatched |-> << <<i - 1, gt[j]>> >> \o g.unmatched]

\* the alignments of ocr[i..] with gt[j..] are kept in a table, filled from
\* the ends of both tuples backwards: cell number c holds the one for
\* i = Len(ocr) + 1 - c \div (Len(gt) + 1), j = Len(gt) + 1 - c % (Len(gt) + 1)
AlignCell(ocr, gt, i, j) == (Len(ocr) + 1 - i) * (Len(gt) + 1) + (Len(gt) + 1 - j)

AlignAt(ocr, gt, i, j, table) ==
    IF i > Len(ocr)
    THEN [total |-> 0, gts |-> <<>>, scores |-> <<>>,
          unmatched |-> [k \in 1 .. (Len(gt) - j + 1) |-> <<Len(ocr), gt[j + k - 1]>>]]
    ELSE IF j > Len(gt)
    THEN [total |-> 0,
          gts |-> [k \in 1 .. (Len(ocr) - i + 1) |-> <<>>],
          scores |-> [k \in 1 .. (Len(ocr) - i + 1) |-> NoScore],
          unmatched |-> <<>>]
    ELSE AlignStep(ocr, gt, i, j,
                   table[AlignCell(ocr, gt, i + 1, j + 1) + 1],
                   table[AlignCell(ocr, gt, i + 1, j) + 1],
                   table[AlignCell(ocr, gt, i, j + 1) + 1])

RECURSIVE AlignTable(_, _, _)
AlignTable(ocr, gt, table) ==
    LET c == Len(table)
    IN IF c = (Len(ocr) + 1) * (Len(gt) + 1) THEN table
       ELSE AlignTable(ocr, gt,
               Append(table, AlignAt(ocr, gt,
                                     Len(ocr) + 1 - (c \div (Len(gt) + 1)),
                                     Len(gt) + 1 - (c % (Len(gt) + 1)),
                                     table)))

\* the alignment of a whole OCR word tuple with a whole ground-truth tuple
Align(ocr, gt) ==
    AlignTable(ocr, gt, <<>>)[(Len(ocr) + 1) * (Len(gt) + 1)]

----------------------------------------------------------------------------
(* Line (Block)                                                            *)

Line(words, base, unmatched, validated) ==
    [words |-> words, base_ground_truth_text |-> base,
     unmatched_ground_truth_words |-> unmatched, validated |-> validated]

\* the editor holds no detached Block
NoLine == Line(<<>>, <<"NoLine">>, <<>>, FALSE)

Texts(line) == [k \in 1 .. Len(line.words) |-> line.words[k].text]

\* update_line_with_ground_truth(line, ocr_line_tuple, ground_truth_tuple)
UpdateLineWithGroundTruth(line, ocr_line_tuple, ground_truth_tuple) ==
    LET r == Align(ocr_line_tuple, ground_truth_tuple)
    IN [line EXCEPT
          !.words = [k \in 1 .. Len(line.words) |->
                        [line.words[k] EXCEPT !.ground_truth_text = r.gts[k],
                                              !.match_score = r.scores[k]]],
          !.unmatched_ground_truth_words = r.unmatched]

\* Word.merge(word_to_merge): the texts in order, the union of the boxes
WordMerge(w, other) ==
    [w EXCEPT !.text = w.text \o other.text,
              !.bounding_box = BBoxUnion(w.bounding_box, other.bounding_box)]

\* Block.remove_item(word), the word being the k-th of the line
RemoveItem(line, k) == [line EXCEPT !.words = RemoveAt(line.words, k)]

\* BoundingBox.crop_top(image) and crop_bottom(image): the background rows
\* at the top, or at the bottom, of the box are cut off
CropTop(b) ==
    LET rows == {y \in InkRows : b.minY <= y /\ y < b.maxY}
    IN IF rows = {} THEN b ELSE [b EXCEPT !.minY = SetMin(rows)]
CropBottom(b) ==
    LET rows == {y \in InkRows : b.minY <= y /\ y < b.maxY}
    IN IF rows = {} THEN b ELSE [b EXCEPT !.maxY = SetMax(rows) + 1]

\* BoundingBox.from_ltrb refuses a box whose edges are inverted
FromLtrbAccepts(b) == b.minX <= b.maxX /\ b.minY <= b.maxY

\* Block.split_word accepts 0 < offset < 1 and 0 <= index <= len(text)
SplitAccepted(line, k, offNum, offDen, charIdx) ==
    /\ k \in 1 .. Len(line.words)
    /\ offDen > 0 /\ 0 < offNum /\ offNum < offDen
    /\ 0 <= charIdx /\ charIdx <= Len(line.words[k].text)

\* Block.split_word(split_word_index, bbox_split_offset, character_split_index)
\* with bbox_split_offset = offNum / offDen of the word's own width
SplitWord(line, k, offNum, offDen, charIdx) ==
    LET w == line.words[k]
        b == w.bounding_box
        cut == b.minX + ((b.maxX - b.minX) * offNum) \div offDen
        left == Word(Prefix(w.text, charIdx), BBox(b.minX, b.minY, cut, b.maxY),
                     <<>>, NoScore)
        right == Word(Suffix(w.text, charIdx), BBox(cut, b.minY, b.maxX, b.maxY),
                      <<>>, NoScore)
    IN [line EXCEPT !.words = ReplaceAt(line.words, k, <<left, right>>)]

\* Block.refine_bounding_boxes(image, padding_px)
RefineBoundingBoxes(line, padding_px) ==
    [line EXCEPT !.words = [k \in 1 .. Len(line.words) |->
        [line.words[k] EXCEPT !.bounding_box = Refine(@, padding_px)]]]

----------------------------------------------------------------------------
(* Page, and the lines the OCR engine and the proofread text give          *)

\* the word boxes of every line, as the page overlays show them
Overlay(lines) ==
    [l \in 1 .. Len(lines) |->
        [k \in 1 .. Len(lines[l].words) |-> lines[l].words[k].bounding_box]]

\* a Page: where it came from ("ocr" or "file"), whether
\* cv2_numpy_page_image is set, its lines, and the word boxes its overlay
\* images (cv2_numpy_page_image_word_with_bboxes and the like) were drawn
\* from; a new Page draws them from its lines
Page(origin, has_image, lines) ==
    [origin |-> origin, has_image |-> has_image, lines |-> lines,
     overlay |-> Overlay(lines)]

\* Page.refresh_page_images: the overlay images are drawn anew
RefreshPageImages(page) == [page EXCEPT !.overlay = Overlay(page.lines)]

\* no entry in matched_ocr_pages
NoPage == Page("none", FALSE, <<>>)

\* the boxes the OCR engine gives the words of a line, left to right
OcrBox(k) ==
    IF k = 1 THEN BBox(0, 0, 3, ImageH)
    ELSE IF k = 2 THEN BBox(4, 0, 6, ImageH)
    ELSE BBox(6, 0, ImageW, ImageH)

\* Page.add_ground_truth for one line: the OCR words aligned with the line's
\* proofread text (NoText: the proofread page has no text for this line)
IngestLine(ocr, base) ==
    UpdateLineWithGroundTruth(
        Line([k \in 1 .. Len(ocr) |-> Word(ocr[k], OcrBox(k), <<>>, NoScore)],
             base, <<>>, FALSE),
        ocr,
        IF base = NoText \/ base = <<>> THEN <<>> ELSE SplitSpace(base))

----------------------------------------------------------------------------
(* Line editor: the match list                                             *)

NoIdx == 0 - 1

\* edit_margins as a task starts and ends: [0, 0, 0, 0]
NoMargins == <<0, 0, 0, 0>>

Match(word_idx, is_word, ocr_text, gt_text, color, width) ==
    [idx |-> NoIdx, word_idx |-> word_idx, is_word |-> is_word,
     ocr_text |-> ocr_text, gt_text |-> gt_text,
     ocr_text_color |-> color, img_width |-> width]

\* a colour rule that takes every score of 0 for a missing match
WordColorZeroIsRed(w) ==
    IF w.match_score = NoScore \/ w.match_score = 0
    THEN "red"
    ELSE IF w.match_score # 100 THEN "blue"
    ELSE "lightgray"

\* the colour of an OCR word in the matching table
WordColor(w) ==
    IF w.match_score = NoScore \/ (w.match_score = 0 /\ w.ground_truth_text = <<>>)
    THEN "red"
    ELSE IF w.match_score # 100 THEN "blue"
    ELSE "lightgray"

WordMatches(line) ==
    [k \in 1 .. Len(line.words) |->
        LET w == line.words[k]
        IN Match(k - 1, TRUE, w.text, w.ground_truth_text, WordColor(w),
                 w.bounding_box.maxX - w.bounding_box.minX)]

RECURSIVE InsertUnmatched(_, _, _)
\* the unmatched ground-truth words k, k-1, .., 1 inserted, each at index + 1
InsertUnmatched(matches, unmatched, k) ==
    IF k = 0 THEN matches
    ELSE InsertUnmatched(
            ListInsert(matches, unmatched[k][1] + 1,
                       Match(unmatched[k][1] + 1, FALSE, <<>>, unmatched[k][2], "red", 0)),
            unmatched, k - 1)

\* calculate_line_matches
CalculateLineMatches(line, has_image) ==
    IF ~has_image THEN <<>>
    ELSE LET m == InsertUnmatched(WordMatches(line),
                                  line.unmatched_ground_truth_words,
                                  Len(line.unmatched_ground_truth_words))
         IN [i \in 1 .. Len(m) |-> [m[i] EXCEPT !.idx = i - 1]]

----------------------------------------------------------------------------
(* Page editor: the line editors and the filter                            *)

\* Block.ground_truth_exact_match
ExactMatch(line) ==
    /\ \A k \in 1 .. Len(line.words) : line.words[k].match_score = 100
    /\ line.unmatched_ground_truth_words = <<>>

\* regenerate_line_editors: one editor per line of the page, in page order.
\* An editor is written as the place its line has on the page now, 0 once
\* the line left the page
RegenerateLineEditors(page) == [i \in 1 .. Len(page.lines) |-> i]

\* the first line of the page left the page: the editors keep their lines
LineLeft(pe) ==
    [pe EXCEPT !.line_editors =
        [e \in 1 .. Len(@) |-> IF @[e] = 0 THEN 0 ELSE @[e] - 1]]

\* the two tests of rebuild_visible_lines of the notebook page editor
FilterHides(config, line) ==
    \/ /\ ExactMatch(line)
       /\ config \in {"SHOW_ONLY_MISMATCHES", "SHOW_ONLY_UNVALIDATED_MISMATCHES"}
    \/ config = "SHOW_ONLY_UNVALIDATED_MISMATCHES" /\ line.validated

\* should_show_line declares a LineMatching class of its own and compares
\* the configuration, a member of the LineMatching class of the page editor
\* module, with its members: members of two Enum classes are never equal
LocalEnumEquals(config, name) == FALSE

\* NiceGuiLineEditor.should_show_line, rows being the editor's match list
ShouldShowLine(config, line, rows) ==
    /\ ~ /\ ExactMatch(line)
         /\ \/ LocalEnumEquals(config, "SHOW_ONLY_MISMATCHES")
            \/ LocalEnumEquals(config, "SHOW_ONLY_UNVALIDATED_MISMATCHES")
    /\ ~ /\ LocalEnumEquals(config, "SHOW_ONLY_UNVALIDATED_MISMATCHES")
         /\ line.validated
    /\ rows # <<>>

\* Block.ground_truth_text of a line: the ground-truth texts of its words,
\* joined by spaces
GroundTruthText(line) ==
    LET RECURSIVE join(_)
        join(k) == IF k = 0 THEN <<>>
                   ELSE IF k = 1 THEN line.words[1].ground_truth_text
                   ELSE join(k - 1) \o <<" ">> \o line.words[k].ground_truth_text
    IN join(Len(line.words))

\* rebuild_visible_lines.  The notebook page editor walks the lines of the
\* page and shows line_editors[idx] for the lines the filter keeps; the
\* NiceGUI page editor walks line_editors and asks each should_show_line.
\* detached and matches are the Block and the match list of the editor in
\* use; the other editors have the match list of their construction
RebuildVisibleLines(pe, page, detached, matches) ==
    LET config == pe.line_matching_configuration
        line(e) == IF pe.line_editors[e] = 0 THEN detached
                   ELSE page.lines[pe.line_editors[e]]
        inUse(e) == pe.line_editors[e] = (IF detached # NoLine THEN 0 ELSE 1)
        rows(e) == IF inUse(e) THEN matches
                   ELSE CalculateLineMatches(line(e), page.has_image)
    IN [pe EXCEPT !.boxes =
           IF fe = "ipynb"
           THEN SelectSeq([i \in 1 .. Len(page.lines) |-> i],
                          LAMBDA i : ~FilterHides(config, page.lines[i]))
           ELSE SelectSeq([e \in 1 .. Len(pe.line_editors) |-> e],
                          LAMBDA e : ShouldShowLine(config, line(e), rows(e)))]

\* rebuild_content_ui: regenerate_line_editors, then rebuild_visible_lines
RebuildContentUi(config, page, matches) ==
    RebuildVisibleLines([line_matching_configuration |-> config,
                         line_editors |-> RegenerateLineEditors(page),
                         boxes |-> <<>>, word_buttons |-> TRUE],
                        page, NoLine, matches)

\* no download of the project ran: the position of the run, the page the
\* loop is at, the image file of each page on disk ("absent", "empty",
\* "error" for the body of a refused request, "complete"), and pages.json
NoDownload ==
    [pc |-> "idle", next |-> 0,
     images |-> [i \in 1 .. ProjectPages |-> "absent"], pages_json |-> FALSE]

----------------------------------------------------------------------------
(* Line editor: state access                                               *)

CurPage == matched_ocr_pages[current_page_idx]

\* the editor exists for the first line of the current page, or still holds
\* the Block that left the page
HasEditor ==
    \/ detached_line # NoLine
    \/ CurPage # NoPage /\ CurPage.lines # <<>>

\* editor._current_ocr_line
CurLine == IF detached_line # NoLine THEN detached_line ELSE CurPage.lines[1]

\* page_image_change_callback of the labeler, when the handler calls it
PageImageChange(page, callback) ==
    IF callback THEN RefreshPageImages(page) ELSE page

\* the editor's line becomes new; with remove_empty a line left without
\* words leaves the page (page.remove_empty_items) and stays with the editor;
\* with callback the handler ends with page_image_change_callback
StoreLine(new, remove_empty, callback) ==
    IF detached_line # NoLine
    THEN /\ detached_line' = new
         /\ matched_ocr_pages' =
               [matched_ocr_pages EXCEPT ![current_page_idx] =
                   PageImageChange(@, callback)]
    ELSE IF remove_empty /\ new.words = <<>>
    THEN /\ detached_line' = new
         /\ matched_ocr_pages' =
               [matched_ocr_pages EXCEPT ![current_page_idx] =
                   PageImageChange([@ EXCEPT !.lines = Tail(@)], callback)]
    ELSE /\ detached_line' = detached_line
         /\ matched_ocr_pages' =
               [matched_ocr_pages EXCEPT ![current_page_idx] =
                   PageImageChange([@ EXCEPT !.lines[1] = new], callback)]

\* what the history variable records of a handler run: the handler, how it
\* ended, the word index it was given, the line before it, the alignment it
\* ran, and whether the cache entries of the other page indices and the
\* lines of the pages cached before are as they were
Ran(op, outcome, arg, pre, aligned, ocr_tuple, gt_tuple) ==
    [op |-> op, outcome |-> outcome, arg |-> arg, pre |-> pre,
     aligned |-> aligned, ocr_tuple |-> ocr_tuple, gt_tuple |-> gt_tuple,
     others_kept |-> TRUE, cached_kept |-> TRUE, line_change |-> FALSE,
     start_page_name |-> <<>>]

\* a handler that ran without calling update_line_with_ground_truth
RanPlain(op, outcome, arg, pre) == Ran(op, outcome, arg, pre, FALSE, <<>>, <<>>)

\* Python items[i]: a negative i counts from the end
PyInRange(items, i) == (0 - Len(items)) <= i /\ i < Len(items)
PyPos(items, i) == IF i < 0 THEN Len(items) + i + 1 ELSE i + 1

\* keep.merge(drop) followed by remove_item(drop), by position in the line
MergeInto(line, keep, drop) ==
    RemoveItem([line EXCEPT !.words[keep] = WordMerge(@, line.words[drop])], drop)

\* redraw_ui of the notebook editor and refresh_ui of the NiceGUI editor
\* recalculate the match list
Redraw(line) == CalculateLineMatches(line, CurPage.has_image)

\* the buttons of a word.  The notebook editor redraws itself in every
\* handler and draws them while no task is active; the cards of the NiceGUI
\* editor are drawn by draw_ui only, when the page editor rebuilds the
\* visible lines, and stay as drawn until the next rebuild
ButtonsShown ==
    IF fe = "ipynb" THEN task_type = "NONE" ELSE page_editor.word_buttons

\* the page editor after a handler of the line editor: with called, the
\* handler ended with line_change_callback, which is rebuild_visible_lines
\* on what the handler left
LineChange(called) ==
    IF called
    THEN [RebuildVisibleLines(page_editor, matched_ocr_pages'[current_page_idx],
                              detached_line', line_matches')
             EXCEPT !.word_buttons = (fe = "ipynb" \/ task_type = "NONE")]
    ELSE page_editor

----------------------------------------------------------------------------
(* Line editor: merge, delete, ground-truth edits                          *)

\* the boundary checks of the four merge handlers
IpynbMergeLeftAllowedFromZero(word_idx) == word_idx >= 0
IpynbMergeLeftAllowed(word_idx) == word_idx > 0
IpynbMergeRightAllowed(word_idx, items) == word_idx < Len(items) - 1
NiceguiMergeLeftRefused(match_idx) == match_idx <= 0
NiceguiMergeRightRefused(word_idx, items) == word_idx >= Len(items) - 1

\* IpynbLineEditor.merge_left(match)
ipynb_merge_left(match) ==
    LET line == CurLine
        items == line.words
        word_idx == match.word_idx
    IN /\ fe = "ipynb" /\ HasEditor /\ ButtonsShown /\ match.is_word
       /\ IF ~IpynbMergeLeftAllowed(word_idx)
          THEN /\ last' = RanPlain("merge_left", "noop", match.word_idx, line)
               /\ UNCHANGED <<matched_ocr_pages, detached_line, line_matches>>
          ELSE IF ~PyInRange(items, word_idx - 1)
          THEN /\ last' = RanPlain("merge_left", "raised", match.word_idx, line)
               /\ UNCHANGED <<matched_ocr_pages, detached_line, line_matches>>
          ELSE LET new == MergeInto(line, PyPos(items, word_idx - 1), word_idx + 1)
               IN /\ StoreLine(new, FALSE, TRUE)
                  /\ line_matches' = Redraw(new)
                  /\ last' = RanPlain("merge_left", "ok", match.word_idx, line)
       /\ edits < MaxEdits /\ edits' = edits + 1
       /\ UNCHANGED <<fe, labelerFrame, taskVars>>

\* what merge_right on the word at word_idx ends with, when its boundary
\* check lets it through: the line it stores and the callbacks it calls
MergeRightEnds(line, word_idx) ==
    [line |-> MergeInto(line, word_idx + 1, PyPos(line.words, word_idx + 1)),
     line_change |-> (fe = "ipynb"),
     page_image_change |-> TRUE]

\* IpynbLineEditor.merge_right(match) and NiceGuiLineEditor.merge_right(match)
merge_right(match) ==
    LET line == CurLine
        items == line.words
        word_idx == match.word_idx
        allowed == IF fe = "ipynb" THEN IpynbMergeRightAllowed(word_idx, items)
                   ELSE ~NiceguiMergeRightRefused(word_idx, items)
    IN /\ HasEditor /\ ButtonsShown /\ match.is_word
       /\ IF ~allowed
          THEN /\ last' = RanPlain("merge_right", "noop", match.word_idx, line)
               /\ UNCHANGED <<matched_ocr_pages, detached_line, line_matches, page_editor>>
          ELSE IF ~PyInRange(items, word_idx + 1)
          THEN /\ last' = RanPlain("merge_right", "raised", match.word_idx, line)
               /\ UNCHANGED <<matched_ocr_pages, detached_line, line_matches, page_editor>>
          ELSE LET ends == MergeRightEnds(line, word_idx)
                   new == ends.line
               IN /\ StoreLine(new, FALSE, ends.page_image_change)
                  /\ line_matches' = Redraw(new)
                  /\ page_editor' = LineChange(ends.line_change)
                  /\ last' = [RanPlain("merge_right", "ok", match.word_idx, line)
                                EXCEPT !.line_change = ends.line_change]
       /\ edits < MaxEdits /\ edits' = edits + 1
       /\ UNCHANGED <<fe, storeFrame, taskVars>>

\* NiceGuiLineEditor.merge_left(match): the neighbour is the match displayed
\* before this one
nicegui_merge_left(match) ==
    LET line == CurLine
        match_idx == match.idx
    IN /\ fe = "nicegui" /\ HasEditor /\ ButtonsShown /\ match.is_word
       /\ IF NiceguiMergeLeftRefused(match_idx)
          THEN /\ last' = RanPlain("merge_left", "noop", match.word_idx, line)
               /\ UNCHANGED <<matched_ocr_pages, detached_line, line_matches>>
          ELSE IF ~PyInRange(line_matches, match_idx - 1)
          THEN /\ last' = RanPlain("merge_left", "raised", match.word_idx, line)
               /\ UNCHANGED <<matched_ocr_pages, detached_line, line_matches>>
          ELSE LET prev_match == line_matches[PyPos(line_matches, match_idx - 1)]
                   new == IF prev_match.is_word
                          THEN MergeInto(line, prev_match.word_idx + 1, match.word_idx + 1)
                          ELSE line
               IN /\ StoreLine(new, FALSE, TRUE)
                  /\ line_matches' = Redraw(new)
                  /\ last' = RanPlain("merge_left", "ok", match.word_idx, line)
       /\ edits < MaxEdits /\ edits' = edits + 1
       /\ UNCHANGED <<fe, labelerFrame, taskVars>>

\* the unmatched ground-truth words that delete_match keeps
KeptUnmatched(unmatched, match) ==
    SelectSeq(unmatched, LAMBDA u : u[1] # match.word_idx /\ u[2] # match.gt_text)

\* delete_match(match), both editors
delete_match(match) ==
    LET line == CurLine
        new == IF match.is_word
               THEN RemoveItem(line, match.word_idx + 1)
               ELSE [line EXCEPT !.unmatched_ground_truth_words =
                                     KeptUnmatched(@, match)]
    IN /\ HasEditor /\ ButtonsShown
       /\ StoreLine(new, match.is_word, TRUE)
       /\ line_matches' = Redraw(new)
       /\ page_editor' = IF Len(matched_ocr_pages'[current_page_idx].lines) < Len(CurPage.lines)
                         THEN LineLeft(page_editor) ELSE page_editor
       /\ last' = RanPlain(IF match.is_word THEN "delete_word" ELSE "delete_unmatched",
                           "ok", match.word_idx, line)
       /\ edits < MaxEdits /\ edits' = edits + 1
       /\ UNCHANGED <<fe, storeFrame, taskVars>>

\* word.ground_truth_text = text, followed by
\* word.ground_truth_match_keys["match_score"] = word.fuzz_score_against(text)
AssignGroundTruthKeepingScore(w, text) ==
    [w EXCEPT !.ground_truth_text = text]
AssignGroundTruth(w, text) ==
    [w EXCEPT !.ground_truth_text = text,
              !.match_score = FuzzScore(w.text, text)]

\* the texts typed into a ground-truth box
GtInputs == {<<"a">>}

\* update_gt_text: the notebook editor redraws, the NiceGUI editor patches
\* the match it was given
update_gt_text(match, new_text) ==
    LET line == CurLine
        k == match.word_idx + 1
        new == [line EXCEPT !.words[k] = AssignGroundTruth(@, new_text)]
    IN /\ HasEditor /\ match.is_word
       /\ StoreLine(new, FALSE, TRUE)
       /\ line_matches' =
             IF fe = "ipynb" THEN Redraw(new)
             ELSE [line_matches EXCEPT ![match.idx + 1].gt_text = new_text]
       /\ last' = RanPlain("update_gt_text", "ok", match.word_idx, line)
       /\ edits < MaxEdits /\ edits' = edits + 1
       /\ UNCHANGED <<fe, labelerFrame, taskVars>>

\* copy_ocr_to_gt, both editors
copy_ocr_to_gt ==
    LET line == CurLine
        new == [line EXCEPT !.words = [k \in 1 .. Len(line.words) |->
                   AssignGroundTruth(line.words[k], line.words[k].text)]]
    IN /\ HasEditor
       /\ StoreLine(new, FALSE, FALSE)
       /\ line_matches' = Redraw(new)
       /\ last' = RanPlain("copy_ocr_to_gt", "ok", NoIdx, line)
       /\ edits < MaxEdits /\ edits' = edits + 1
       /\ UNCHANGED <<fe, labelerFrame, taskVars>>

\* NiceGuiPageEditor.batch_copy_ocr_to_gt: every word of the page with a text
\* and without ground truth gets its own text as ground truth and the score
\* 100; rebuild_content_ui then makes the line editors anew
batch_copy_ocr_to_gt ==
    LET line == CurPage.lines[1]
        copied(l) == [l EXCEPT !.words = [k \in 1 .. Len(l.words) |->
                   IF l.words[k].text # <<>> /\ l.words[k].ground_truth_text = <<>>
                   THEN [l.words[k] EXCEPT !.ground_truth_text = l.words[k].text,
                                           !.match_score = 100]
                   ELSE l.words[k]]]
        new == copied(line)
    IN /\ fe = "nicegui" /\ CurPage # NoPage /\ CurPage.lines # <<>>
       /\ matched_ocr_pages' =
             [matched_ocr_pages EXCEPT ![current_page_idx] =
                 RefreshPageImages([@ EXCEPT !.lines =
                     [l \in 1 .. Len(@) |-> copied(@[l])]])]
       /\ detached_line' = NoLine
       /\ task_type' = "NONE"
       /\ task_match_idx' = NoIdx
       /\ split_task_x_coordinate' = NoIdx
       /\ split_task_word_split_idx' = NoIdx
       /\ edit_margins' = NoMargins
       /\ line_matches' = CalculateLineMatches(new, CurPage.has_image)
       /\ page_editor' = RebuildContentUi(page_editor.line_matching_configuration,
                                          matched_ocr_pages'[current_page_idx], line_matches')
       /\ last' = RanPlain("batch_copy_ocr_to_gt", "ok", NoIdx, line)
       /\ edits < MaxEdits /\ edits' = edits + 1
       /\ UNCHANGED <<fe, storeFrame>>

----------------------------------------------------------------------------
(* Line editor: the split task                                             *)

\* the match the active task points at (line_matches[task_match_idx])
TaskMatchReadable == PyInRange(line_matches, task_match_idx)
TaskMatch == line_matches[PyPos(line_matches, task_match_idx)]

\* Python int(w * amount) for amount = percent / 100: truncation toward zero
PixelsOfPercent(w, percent) ==
    IF percent >= 0 THEN (w * percent) \div 100
    ELSE 0 - ((w * (0 - percent)) \div 100)

Clamp(v, lo, hi) == Min2(Max2(v, lo), hi)

\* the defaults the split task UI fills in when it is drawn
DefaultSplitX(x, match) == IF x = NoIdx THEN match.img_width \div 2 ELSE x
DefaultSplitIdx(i, match) == IF i = NoIdx THEN Len(match.ocr_text) \div 2 ELSE i

\* start_split_task(match): the notebook editor keeps the character index
\* of the task before, the NiceGUI editor forgets it
start_split_task(match) ==
    /\ HasEditor /\ ButtonsShown /\ match.is_word
    /\ task_type' = "SPLIT"
    /\ task_match_idx' = match.idx
    /\ split_task_x_coordinate' = DefaultSplitX(NoIdx, match)
    /\ split_task_word_split_idx' =
          DefaultSplitIdx(IF fe = "ipynb" THEN split_task_word_split_idx ELSE NoIdx,
                          match)
    /\ line_matches' = IF fe = "ipynb" THEN Redraw(CurLine) ELSE line_matches
    /\ UNCHANGED <<fe, labelerVars, edits, last, detached_line, edit_margins>>

\* cancel_split_task
cancel_split_task ==
    /\ HasEditor /\ task_type = "SPLIT"
    /\ task_type' = "NONE"
    /\ task_match_idx' = NoIdx
    /\ split_task_x_coordinate' = NoIdx
    /\ split_task_word_split_idx' =
          IF fe = "ipynb" THEN split_task_word_split_idx ELSE NoIdx
    /\ line_matches' = IF fe = "ipynb" THEN Redraw(CurLine) ELSE line_matches
    /\ UNCHANGED <<fe, labelerVars, edits, last, detached_line, edit_margins>>

PixelAmounts == {0 - 1, 1}
PercentAmounts == {0 - 20, 0 - 5, 5, 20}
TextAmounts == {0 - 1, 1}

\* split_move_pixels(amount) and split_move_percent(amount)
split_move_x(pixels) ==
    /\ HasEditor /\ task_type = "SPLIT"
    /\ TaskMatchReadable /\ TaskMatch.is_word
    /\ split_task_x_coordinate' =
          Clamp(split_task_x_coordinate + pixels, 0, TaskMatch.img_width)
    /\ UNCHANGED <<fe, labelerVars, edits, last, detached_line, line_matches, task_type,
                   task_match_idx, split_task_word_split_idx, edit_margins>>

split_move_pixels(amount) == split_move_x(amount)

split_move_percent(percent) ==
    /\ TaskMatchReadable
    /\ split_move_x(PixelsOfPercent(TaskMatch.img_width, percent))

\* split_move_text(amount)
split_move_text(amount) ==
    /\ HasEditor /\ task_type = "SPLIT"
    /\ TaskMatchReadable
    /\ split_task_word_split_idx' =
          Clamp(split_task_word_split_idx + amount, 0, Len(TaskMatch.ocr_text))
    /\ UNCHANGED <<fe, labelerVars, edits, last, detached_line, line_matches, task_type,
                   task_match_idx, split_task_x_coordinate, edit_margins>>

\* the line after split_word, expand_to_content of every word and
\* refine_bounding_boxes, before the ground truth is matched again
SplitExpandRefine(line, k, offNum, offDen, charIdx) ==
    LET split == SplitWord(line, k, offNum, offDen, charIdx)
        expanded == [split EXCEPT !.words = [j \in 1 .. Len(split.words) |->
                       [split.words[j] EXCEPT !.bounding_box = ExpandToContent(@)]]]
    IN RefineBoundingBoxes(expanded, 1)

\* the width execute_split divides the pixel offset by
SplitOffsetDenominator(match) ==
    IF fe = "ipynb" THEN ImageW ELSE match.img_width

\* the ground-truth tuple execute_split passes to the alignment; the notebook
\* editor calls split(" ") on whatever the base text is
SplitGroundTruthRaises(base) == fe = "ipynb" /\ base = NoText
SplitGroundTruthTuple(base) ==
    IF fe = "ipynb" THEN SplitSpace(base)
    ELSE IF base = NoText \/ base = <<>> THEN <<>>
    ELSE SplitSpace(base)

\* execute_split, both editors
execute_split ==
    LET line == CurLine
        match == TaskMatch
        k == match.word_idx + 1
        offNum == split_task_x_coordinate
        offDen == SplitOffsetDenominator(match)
        charIdx == split_task_word_split_idx
        replaced == SplitExpandRefine(line, k, offNum, offDen, charIdx)
        ocr_line_tuple == Texts(replaced)
        ground_truth_tuple == SplitGroundTruthTuple(line.base_ground_truth_text)
        new == UpdateLineWithGroundTruth(replaced, ocr_line_tuple, ground_truth_tuple)
    IN /\ HasEditor
       /\ fe = "ipynb" => task_type = "SPLIT"
       /\ Len(line.words) < MaxWords
       /\ IF fe = "nicegui" /\ task_match_idx < 0
          THEN /\ last' = RanPlain("execute_split", "noop", task_match_idx, line)
               /\ UNCHANGED <<matched_ocr_pages, detached_line, line_matches, taskVars>>
          ELSE IF \/ ~TaskMatchReadable
                  \/ ~match.is_word
                  \/ ~SplitAccepted(line, k, offNum, offDen, charIdx)
          THEN \* IndexError, no word image, division by zero, or split_word refuses
               /\ last' = RanPlain("execute_split", "raised", task_match_idx, line)
               /\ UNCHANGED <<matched_ocr_pages, detached_line, line_matches, taskVars>>
          ELSE IF SplitGroundTruthRaises(line.base_ground_truth_text)
          THEN \* None has no split: the handler ends after the word was replaced
               /\ StoreLine(replaced, FALSE, FALSE)
               /\ last' = RanPlain("execute_split", "raised", task_match_idx, line)
               /\ UNCHANGED <<line_matches, taskVars>>
          ELSE /\ StoreLine(new, FALSE, TRUE)
               /\ task_type' = "NONE"
               /\ task_match_idx' = NoIdx
               /\ split_task_x_coordinate' = NoIdx
               /\ split_task_word_split_idx' =
                     IF fe = "ipynb" THEN split_task_word_split_idx ELSE NoIdx
               /\ edit_margins' = edit_margins
               /\ line_matches' = Redraw(new)
               /\ last' = Ran("execute_split", "ok", task_match_idx, line,
                              TRUE, ocr_line_tuple, ground_truth_tuple)
       /\ edits < MaxEdits /\ edits' = edits + 1
       /\ UNCHANGED <<fe, labelerFrame>>

----------------------------------------------------------------------------
(* Saved documents                                                         *)

\* labeled_ocr_path/<prefix>.json: absent, or a Document with its pages
\* and whether it names a source image
JsonFile(exists, pages, has_source_path) ==
    [exists |-> exists, pages |-> pages, has_source_path |-> has_source_path]

NoFile == JsonFile(FALSE, <<>>, FALSE)

\* no Save ran for the page index in this session
NotSaved == <<NoLine>>

----------------------------------------------------------------------------
(* The line editor on one line                                             *)

\* the OCR words and the proofread text of the lines edited
EditedLines ==
    { IngestLine(<< <<"a", "b">> >>, <<"a", " ", "b">>),
      IngestLine(<< <<"a">>, <<"b">> >>, <<"b", " ", "a", " ", "b">>),
      IngestLine(<< <<"a">>, <<"b">>, <<"a">> >>, <<"a", " ", "a", " ", "a">>),
      IngestLine(<< <<"a", "b">> >>, NoText),
      IngestLine(<< <<"a", "b">> >>, <<>>),
      IngestLine(<< <<"a">> >>, <<"a", " ", "b", " ", "a">>) }

NoRun == RanPlain("none", "ok", NoIdx, NoLine)

----------------------------------------------------------------------------
(* The project export and the start page of a labeler                      *)

\* the png_file of the page at index i of an export; pathlib's stem of a
\* file name drops its suffix
PngFile(i) == <<i, ".png">>
Stem(png_file) == SubSeq(png_file, 1, Len(png_file) - 1)

\* the pages of an export of n pages
Export(n) == [k \in 1 .. n |-> PngFile(k - 1)]

total_pages == Len(pgdp_export) - 1

\* page_indexby_name.get(name, -1)
PageIndexByName(export, name) ==
    IF \E k \in 1 .. Len(export) : export[k] = name
    THEN (CHOOSE k \in 1 .. Len(export) : export[k] = name) - 1
    ELSE 0 - 1

\* the index into pgdp_export.pages of the page that current_pgdp_page
\* returns for page index idx
PgdpPageIdx(export, idx) == PyPos(export, idx) - 1

\* pathlib.Path(current_pgdp_page.png_file).stem
PageName(export, idx) == Stem(export[PyPos(export, idx)])

\* the start page after the constructor's choice: a page index, the page
\* name shown, and whether the constructor raised IndexError
Started(idx, name, raised) == [idx |-> idx, name |-> name, raised |-> raised]

StartAt(export, idx) ==
    IF PyInRange(export, idx)
    THEN Started(idx, PageName(export, idx), FALSE)
    ELSE Started(idx, <<>>, TRUE)

\* neither branch of the constructor assigns: the index stays 0; the
\* NiceGUI labeler then fills in the page name, the notebook labeler
\* leaves it empty
StartKept(export) ==
    Started(0, IF fe = "ipynb" THEN <<>> ELSE PageName(export, 0), FALSE)

StartPage(export, start_page_name, start_page_idx) ==
    LET total == Len(export) - 1
        new_idx == PageIndexByName(export, start_page_name)
    IN IF fe = "ipynb"
       THEN IF start_page_name # <<>>
            THEN IF new_idx > 0 /\ new_idx < total
                 THEN StartAt(export, start_page_idx)
                 ELSE StartKept(export)
            ELSE IF start_page_idx > 0 /\ start_page_idx < total
                 THEN StartAt(export, start_page_idx)
                 ELSE StartKept(export)
       ELSE IF start_page_name # <<>>
            THEN IF 0 <= new_idx /\ new_idx < total
                 THEN StartAt(export, new_idx)
                 ELSE StartKept(export)
            ELSE IF 0 <= start_page_idx /\ start_page_idx < total
                 THEN StartAt(export, start_page_idx)
                 ELSE StartKept(export)

\* a labeler constructed over an export of NumPages pages without
\* start_page_name and start_page_idx
DefaultStart ==
    /\ pgdp_export = Export(NumPages)
    /\ current_page_idx = StartPage(pgdp_export, <<>>, 0).idx
    /\ current_page_name = StartPage(pgdp_export, <<>>, 0).name

Init ==
    /\ fe \in {"ipynb", "nicegui"}
    /\ DefaultStart
    /\ \E line \in EditedLines :
          /\ matched_ocr_pages =
                [i \in PageIdxs |-> IF i = 0 THEN Page("ocr", TRUE, <<line>>)
                                    ELSE NoPage]
          /\ line_matches = CalculateLineMatches(line, TRUE)
    /\ json_files = [i \in PageIdxs |-> NoFile]
    /\ png_files = [i \in PageIdxs |-> FALSE]
    /\ detached_line = NoLine
    /\ task_type = "NONE"
    /\ task_match_idx = NoIdx
    /\ split_task_x_coordinate = NoIdx
    /\ split_task_word_split_idx = NoIdx
    /\ edit_margins = NoMargins
    /\ ocr_runs = [i \in PageIdxs |-> IF i = 0 THEN 1 ELSE 0]
    /\ saved_snapshot = [i \in PageIdxs |-> NotSaved]
    /\ page_editor = RebuildContentUi("SHOW_ALL_LINES", matched_ocr_pages[0], line_matches)
    /\ download = NoDownload
    /\ edits = 0
    /\ last = NoRun

Next ==
    \/ \E i \in 1 .. Len(line_matches) : ipynb_merge_left(line_matches[i])
    \/ \E i \in 1 .. Len(line_matches) : nicegui_merge_left(line_matches[i])
    \/ \E i \in 1 .. Len(line_matches) : merge_right(line_matches[i])
    \/ \E i \in 1 .. Len(line_matches) : delete_match(line_matches[i])
    \/ \E i \in 1 .. Len(line_matches), t \in GtInputs :
          update_gt_text(line_matches[i], t)
    \/ copy_ocr_to_gt
    \/ batch_copy_ocr_to_gt
    \/ \E i \in 1 .. Len(line_matches) : start_split_task(line_matches[i])
    \/ cancel_split_task
    \/ \E a \in PixelAmounts : split_move_pixels(a)
    \/ \E a \in PercentAmounts : split_move_percent(a)
    \/ \E a \in TextAmounts : split_move_text(a)
    \/ execute_split

Spec == Init /\ [][Next]_vars

\* the handlers of the line editor with every split carried out where the
\* task UI puts the split line when it opens
NextEdit ==
    \/ \E i \in 1 .. Len(line_matches) : ipynb_merge_left(line_matches[i])
    \/ \E i \in 1 .. Len(line_matches) : nicegui_merge_left(line_matches[i])
    \/ \E i \in 1 .. Len(line_matches) : merge_right(line_matches[i])
    \/ \E i \in 1 .. Len(line_matches) : delete_match(line_matches[i])
    \/ \E i \in 1 .. Len(line_matches), t \in GtInputs :
          update_gt_text(line_matches[i], t)
    \/ copy_ocr_to_gt
    \/ batch_copy_ocr_to_gt
    \/ \E i \in 1 .. Len(line_matches) : start_split_task(line_matches[i])
    \/ cancel_split_task
    \/ execute_split

SpecEdit == Init /\ [][NextEdit]_vars

----------------------------------------------------------------------------
(* Properties of the line editor                                           *)

\* C2: every editing handler that changed the number of words of the line
\* (execute split, merge left, merge right, delete word) has run the
\* ground-truth alignment on the line's words as they are now.
C2_LengthChangeRealigns ==
    (/\ last.op \in {"execute_split", "merge_left", "merge_right", "delete_word"}
     /\ Len(CurLine.words) # Len(last.pre.words))
    => (last.aligned /\ last.ocr_tuple = Texts(CurLine))

\* C3: once execute_split has completed, the ground truth of every word, the
\* scores and the unmatched ground-truth words are those of aligning the
\* line's current word texts with the words of its base ground-truth text
\* (no words when that text is empty or absent).
C3_SplitAlignsWithBaseText ==
    (last.op = "execute_split" /\ last.outcome = "ok")
    => LET line == CurLine
           base == line.base_ground_truth_text
           r == Align(Texts(line),
                      IF base = NoText \/ base = <<>> THEN <<>> ELSE SplitSpace(base))
       IN /\ \A k \in 1 .. Len(line.words) :
                /\ line.words[k].ground_truth_text = r.gts[k]
                /\ line.words[k].match_score = r.scores[k]
          /\ line.unmatched_ground_truth_words = r.unmatched

\* C4: when execute_split ended with an exception, the line is the line from
\* before the handler ran.
C4_FailedSplitKeepsLine ==
    (last.op = "execute_split" /\ last.outcome = "raised") => CurLine = last.pre

\* C5: merge left on the word at index i >= 1 and merge right on the word at
\* index i <= n-2 leave n-1 words: the two neighbours are one word at the
\* lower position, with the left text followed by the right text and the
\* union of the boxes; the other words are as before, in order.
C5_MergeJoinsNeighbours ==
    LET pre == last.pre.words
        cur == CurLine.words
        n == Len(pre)
        i == last.arg
        lo == IF last.op = "merge_left" THEN i ELSE i + 1
    IN (\/ last.op = "merge_left" /\ i >= 1 /\ i <= n - 1
        \/ last.op = "merge_right" /\ i >= 0 /\ i <= n - 2)
       => /\ Len(cur) = n - 1
          /\ cur[lo].text = pre[lo].text \o pre[lo + 1].text
          /\ cur[lo].bounding_box =
                BBoxUnion(pre[lo].bounding_box, pre[lo + 1].bounding_box)
          /\ \A j \in 1 .. (lo - 1) : cur[j] = pre[j]
          /\ \A j \in (lo + 1) .. (n - 1) : cur[j] = pre[j + 1]

\* C6: merge left on the first word and merge right on the last word return
\* without an error and leave the words of the line as they were, in both
\* front-ends and for lines of any length.
C6_BoundaryMergeIsNoOp ==
    (\/ last.op = "merge_left" /\ last.arg = 0
     \/ last.op = "merge_right" /\ last.arg = Len(last.pre.words) - 1)
    => (last.outcome = "noop" /\ CurLine.words = last.pre.words)

\* merge left ran on the only word of a line in the NiceGUI editor
C6_Witness ==
    /\ fe = "nicegui"
    /\ last.op = "merge_left" /\ last.arg = 0
    /\ Len(last.pre.words) = 1

----------------------------------------------------------------------------
(* Labeler: saved documents, OCR and the page cache                        *)

\* Document.to_json_file: a box is written as [minX, minY, maxX, maxY], a
\* missing match score as no number
WordToJson(w) ==
    [text |-> w.text,
     bbox |-> <<w.bounding_box.minX, w.bounding_box.minY,
                w.bounding_box.maxX, w.bounding_box.maxY>>,
     ground_truth_text |-> w.ground_truth_text,
     match_score |-> IF w.match_score = NoScore THEN <<>> ELSE <<w.match_score>>]

LineToJson(l) ==
    [words |-> [k \in 1 .. Len(l.words) |-> WordToJson(l.words[k])],
     base_ground_truth_text |-> l.base_ground_truth_text,
     unmatched_ground_truth_words |-> l.unmatched_ground_truth_words,
     attributes |-> [validated |-> l.validated]]

PageToJson(page) ==
    [lines |-> [k \in 1 .. Len(page.lines) |-> LineToJson(page.lines[k])]]

\* Document.from_json_file
WordFromJson(j) ==
    Word(j.text, BBox(j.bbox[1], j.bbox[2], j.bbox[3], j.bbox[4]),
         j.ground_truth_text,
         IF j.match_score = <<>> THEN NoScore ELSE j.match_score[1])

LineFromJson(j) ==
    Line([k \in 1 .. Len(j.words) |-> WordFromJson(j.words[k])],
         j.base_ground_truth_text, j.unmatched_ground_truth_words,
         j.attributes.validated)

LinesFromJson(j) == [k \in 1 .. Len(j.lines) |-> LineFromJson(j.lines[k])]

\* what the OCR engine reads on a page, and the proofread text of the page
OcrWords(idx) ==
    IF idx % 2 = 0 THEN << <<"a", "b">> >> ELSE << <<"a">>, <<"b">> >>
ProcessedPageText(idx) ==
    IF idx % 2 = 0 THEN <<"a", "b">> ELSE <<"a", " ", "b">>

\* doctr_ocr_cv2_image, reorganize_page and add_ground_truth
OcrPage(idx) ==
    Page("ocr", TRUE, <<IngestLine(OcrWords(idx), ProcessedPageText(idx))>>)

\* the labeler while a handler runs: the cache, the OCR runs so far, and
\* whether an exception is on its way to the caller
LabelerState(cache, runs, raised) ==
    [cache |-> cache, runs |-> runs, raised |-> raised]

\* import_ocr_document on page index idx
ImportOcrDocumentIntoFirst(st, idx) ==
    LET file == json_files[idx]
    IN IF ~file.exists THEN st
       ELSE IF Len(file.pages) # 1 \/ ~file.has_source_path
       THEN [st EXCEPT !.raised = (fe = "ipynb")]
       ELSE [st EXCEPT !.cache[0] =
                Page("file", png_files[idx], LinesFromJson(file.pages[1]))]
ImportOcrDocument(st, idx) ==
    LET file == json_files[idx]
    IN IF ~file.exists THEN st
       ELSE IF Len(file.pages) # 1 \/ ~file.has_source_path
       THEN [st EXCEPT !.raised = (fe = "ipynb")]
       ELSE [st EXCEPT !.cache[idx] =
                Page("file", png_files[idx], LinesFromJson(file.pages[1]))]

\* run_ocr(force_refresh_ocr) on page index idx
RunOcr(st, idx, force_refresh_ocr) ==
    LET imported == ImportOcrDocument(st, idx)
    IN IF imported.raised THEN imported
       ELSE IF imported.cache[idx] = NoPage \/ force_refresh_ocr
       THEN [imported EXCEPT !.cache[idx] = OcrPage(PgdpPageIdx(pgdp_export, idx)),
                             !.runs[idx] = @ + 1]
       ELSE imported

\* refresh_ui of the labeler, up to the page editor: run_ocr, then
\* reload_page_images_ui, which raises ValueError for a page without image
RefreshUi(st, idx) ==
    IF st.raised THEN st
    ELSE LET ran == RunOcr(st, idx, FALSE)
         IN IF ran.raised \/ ran.cache[idx].has_image THEN ran
            ELSE [ran EXCEPT !.raised = TRUE]

\* page_editor.update_line_matches: the line editors are made anew
EditorsRegenerated(page) ==
    /\ detached_line' = NoLine
    /\ task_type' = "NONE"
    /\ task_match_idx' = NoIdx
    /\ split_task_x_coordinate' = NoIdx
    /\ split_task_word_split_idx' = NoIdx
    /\ edit_margins' = NoMargins
    /\ line_matches' = IF page.lines = <<>> THEN <<>>
                       ELSE CalculateLineMatches(page.lines[1], page.has_image)
    /\ page_editor' = RebuildContentUi(page_editor.line_matching_configuration,
                                       page, line_matches')

\* the handler ends in labeler state st on page index idx, the page name
\* shown being name
EndsOn(op, st, idx, name) ==
    /\ current_page_idx' = idx
    /\ current_page_name' = name
    /\ matched_ocr_pages' = st.cache
    /\ ocr_runs' = st.runs
    /\ IF st.raised
       THEN UNCHANGED <<detached_line, line_matches, taskVars, page_editor>>
       ELSE EditorsRegenerated(st.cache[idx])
    /\ last' = [RanPlain(op, IF st.raised THEN "raised" ELSE "ok", NoIdx, NoLine)
                  EXCEPT !.others_kept =
                             \A j \in DOMAIN matched_ocr_pages \ {idx} :
                                 st.cache[j] = matched_ocr_pages[j],
                         !.cached_kept =
                             \A j \in DOMAIN matched_ocr_pages :
                                 matched_ocr_pages[j] # NoPage =>
                                     st.cache[j].lines = matched_ocr_pages[j].lines]
    /\ UNCHANGED <<fe, pgdp_export, json_files, png_files, saved_snapshot, edits,
                   download>>

\* a handler that leaves the page name alone
Ends(op, st, idx) == EndsOn(op, st, idx, current_page_name)

Here == LabelerState(matched_ocr_pages, ocr_runs, FALSE)

\* the handler returns without doing anything
Returns == UNCHANGED vars

\* refresh_ui
refresh_ui ==
    Ends("refresh_ui", RefreshUi(Here, current_page_idx), current_page_idx)

\* the current_page_idx setter: the NiceGUI labeler checks the range, the
\* notebook labeler does not; both set the page name and call refresh_ui
SetterAccepts(value) == fe = "ipynb" \/ (0 <= value /\ value <= total_pages)

SetCurrentPageIdx(value) ==
    IF SetterAccepts(value)
    THEN EndsOn("refresh_ui", RefreshUi(Here, value), value,
                PageName(pgdp_export, value))
    ELSE Returns

\* prev_page
PrevPageAllowed ==
    IF fe = "ipynb" THEN current_page_idx >= 1 ELSE current_page_idx > 0

prev_page ==
    IF PrevPageAllowed
    THEN SetCurrentPageIdx(current_page_idx - 1)
    ELSE Returns

\* next_page
next_page ==
    IF current_page_idx < total_pages
    THEN SetCurrentPageIdx(current_page_idx + 1)
    ELSE Returns

\* go_to_page: the page numbers typed
GoToInputs == (0 - 1) .. Len(pgdp_export)

GoToPageAllowed(page_num) ==
    IF fe = "ipynb" THEN page_num < total_pages /\ page_num >= 0
    ELSE 0 <= page_num /\ page_num <= total_pages

go_to_page(page_num) ==
    IF GoToPageAllowed(page_num)
    THEN SetCurrentPageIdx(page_num)
    ELSE Returns

\* reset_ocr: run_ocr(force_refresh_ocr=True), then refresh_ui
reset_ocr ==
    /\ ocr_runs[current_page_idx] < MaxOcrRuns
    /\ Ends("reset_ocr",
            RefreshUi(RunOcr(Here, current_page_idx, TRUE), current_page_idx),
            current_page_idx)

\* export_ocr_document ("Save OCR to File"): to_json_file writes the
\* document, then copyfile copies the page image next to it; copied is
\* whether copyfile succeeds (it raises OSError when it does not)
export_ocr_document(copied) ==
    IF matched_ocr_pages[current_page_idx] = NoPage
    THEN Returns
    ELSE /\ json_files' = [json_files EXCEPT ![current_page_idx] =
               JsonFile(TRUE, <<PageToJson(matched_ocr_pages[current_page_idx])>>, TRUE)]
         /\ png_files' = [png_files EXCEPT ![current_page_idx] = @ \/ copied]
         /\ saved_snapshot' = [saved_snapshot EXCEPT ![current_page_idx] =
               matched_ocr_pages[current_page_idx].lines]
         /\ UNCHANGED <<fe, pgdp_export, current_page_idx, current_page_name,
                        matched_ocr_pages, ocr_runs, edits,
                        last, detached_line, line_matches, taskVars, page_editor,
                        download>>

\* reload_ocr_from_file ("Reload OCR from File"): import_ocr_document, then
\* refresh_ui
reload_ocr_from_file ==
    Ends("reload_ocr_from_file",
         RefreshUi(ImportOcrDocument(Here, current_page_idx), current_page_idx),
         current_page_idx)

\* the document found in labeled_ocr_path for one page when a session starts: none, one
\* saved by an earlier session (its line validated there), one with two
\* pages, one without a source image path
EarlierPage(idx) ==
    PageToJson([OcrPage(idx) EXCEPT !.lines[1].validated = TRUE])

FilesFound(idx) ==
    { NoFile,
      JsonFile(TRUE, <<EarlierPage(idx)>>, TRUE),
      JsonFile(TRUE, <<EarlierPage(idx), EarlierPage(idx)>>, TRUE),
      JsonFile(TRUE, <<EarlierPage(idx)>>, FALSE) }

\* the labeler after its constructor, which ends with refresh_ui
InitCache ==
    /\ fe \in {"ipynb", "nicegui"}
    /\ DefaultStart
    /\ \E p \in PageIdxs : \E file \in FilesFound(p) :
          json_files = [i \in PageIdxs |-> IF i = p THEN file ELSE NoFile]
    /\ png_files = [i \in PageIdxs |-> json_files[i].exists]
    /\ LET st == RefreshUi(LabelerState([i \in PageIdxs |-> NoPage],
                                        [i \in PageIdxs |-> 0], FALSE), 0)
       IN /\ ~st.raised
          /\ matched_ocr_pages = st.cache
          /\ ocr_runs = st.runs
          /\ line_matches = CalculateLineMatches(st.cache[0].lines[1], TRUE)
    /\ detached_line = NoLine
    /\ task_type = "NONE"
    /\ task_match_idx = NoIdx
    /\ split_task_x_coordinate = NoIdx
    /\ split_task_word_split_idx = NoIdx
    /\ edit_margins = NoMargins
    /\ saved_snapshot = [i \in PageIdxs |-> NotSaved]
    /\ page_editor = RebuildContentUi("SHOW_ALL_LINES", matched_ocr_pages[0], line_matches)
    /\ download = NoDownload
    /\ edits = 0
    /\ last = NoRun

NextCache ==
    \/ refresh_ui
    \/ prev_page
    \/ next_page
    \/ \E page_num \in GoToInputs : go_to_page(page_num)
    \/ reset_ocr
    \/ export_ocr_document(TRUE)
    \/ reload_ocr_from_file
    \/ \E t \in GtInputs :
          line_matches # <<>> /\ update_gt_text(line_matches[1], t)

SpecCache == InitCache /\ [][NextCache]_vars

----------------------------------------------------------------------------
(* Properties of the labeler                                               *)

\* C7: a handler other than Reset OCR invokes the OCR engine for a page index
\* only when no OCR ran for it before, the cache holds no page for it and no
\* saved labeled document exists for it.
C7_OcrOnlyWithoutPageOrDocument ==
    [][\A i \in PageIdxs :
          (ocr_runs'[i] > ocr_runs[i] /\ last'.op # "reset_ocr")
          => (/\ ocr_runs[i] = 0
              /\ matched_ocr_pages[i] = NoPage
              /\ ~json_files[i].exists)]_vars

\* C8: after a UI refresh, also one made by navigating, every page index
\* that had a cached page holds the lines it held before, edits included.
C8_RefreshKeepsCachedPages ==
    last.op = "refresh_ui" => last.cached_kept

\* C9: when Reset OCR has finished, the cache entry of the current page index
\* is the page the OCR engine produced, with its ground truth attached.
C9_ResetInstallsOcrPage ==
    (last.op = "reset_ocr" /\ last.outcome = "ok")
    => matched_ocr_pages[current_page_idx] = OcrPage(current_page_idx)

----------------------------------------------------------------------------
(* Bounding boxes: the edit task, crop, delete line, page-wide operations  *)

\* the editor of the line shown is the one of the current page, which
\* refresh_ui made after reload_page_images_ui found the page image
EditorOnPage == HasEditor /\ CurPage # NoPage /\ CurPage.has_image

\* the pixels by which the four margins are away from zero
MarginTotal(m) ==
    LET Abs(n) == IF n < 0 THEN 0 - n ELSE n
    IN Abs(m[1]) + Abs(m[2]) + Abs(m[3]) + Abs(m[4])

\* the amounts on the margin buttons of both editors: -1 and +1 (the
\* NiceGUI editor also has buttons for five and for ten such steps)
MarginAmounts == {0 - 1, 1}

\* one edge moved by its margin and kept inside the image
EditEdgeUnclamped(v, margin, hi) == v + margin
EditEdge(v, margin, hi) == Min2(Max2(v + margin, 0), hi)

\* get_edit_bbox, and the same lines of execute_edit_bbox_task: the word
\* box in pixels moved by edit_margins, before from_ltrb
GetEditBbox(b, m) ==
    BBox(EditEdge(b.minX, m[1], ImageW), EditEdge(b.minY, m[2], ImageH),
         EditEdge(b.maxX, m[3], ImageW), EditEdge(b.maxY, m[4], ImageH))

\* start_edit_bbox_task(match)
start_edit_bbox_task(match) ==
    /\ EditorOnPage /\ ButtonsShown /\ match.is_word
    /\ task_type' = "EDITBBOX"
    /\ task_match_idx' = match.idx
    /\ edit_margins' = NoMargins
    /\ line_matches' = IF fe = "ipynb" THEN Redraw(CurLine) ELSE line_matches
    /\ UNCHANGED <<fe, labelerVars, edits, last, detached_line,
                   split_task_x_coordinate, split_task_word_split_idx>>

\* cancel_edit_bbox_task
cancel_edit_bbox_task ==
    /\ EditorOnPage /\ task_type = "EDITBBOX"
    /\ task_type' = "NONE"
    /\ task_match_idx' = NoIdx
    /\ edit_margins' = NoMargins
    /\ line_matches' = IF fe = "ipynb" THEN Redraw(CurLine) ELSE line_matches
    /\ UNCHANGED <<fe, labelerVars, edits, last, detached_line,
                   split_task_x_coordinate, split_task_word_split_idx>>

\* edit_bbox_adjust_margin(margin, amount): margin 1..4 is L, T, R, B
edit_bbox_adjust_margin(margin, amount) ==
    /\ EditorOnPage /\ task_type = "EDITBBOX"
    /\ edit_margins' = [edit_margins EXCEPT ![margin] = @ + amount]
    /\ MarginTotal(edit_margins') <= MaxMargin
    /\ edits < MaxEdits
    /\ UNCHANGED <<fe, labelerVars, edits, last, detached_line, line_matches,
                   task_type, task_match_idx, split_task_x_coordinate,
                   split_task_word_split_idx>>

\* edit_bbox_refine: the notebook editor moves the margins to the refined
\* edit box, the NiceGUI editor expands the word's own box to its content
edit_bbox_refine ==
    LET line == CurLine
        k == TaskMatch.word_idx + 1
        b == line.words[k].bounding_box
        modified_bbox == GetEditBbox(b, edit_margins)
        refined_bbox == Refine(modified_bbox, 1)
        new == [line EXCEPT !.words[k].bounding_box = ExpandToContent(@)]
    IN /\ EditorOnPage /\ task_type = "EDITBBOX"
       /\ TaskMatchReadable /\ TaskMatch.is_word
       /\ IF fe = "ipynb"
          THEN /\ edit_margins' =
                     IF FromLtrbAccepts(modified_bbox)
                     THEN <<edit_margins[1] + (refined_bbox.minX - modified_bbox.minX),
                            edit_margins[2] + (refined_bbox.minY - modified_bbox.minY),
                            edit_margins[3] + (refined_bbox.maxX - modified_bbox.maxX),
                            edit_margins[4] + (refined_bbox.maxY - modified_bbox.maxY)>>
                     ELSE edit_margins
               /\ UNCHANGED <<matched_ocr_pages, detached_line, last, edits>>
          ELSE /\ StoreLine(new, FALSE, FALSE)
               /\ edit_margins' = edit_margins
               /\ last' = RanPlain("edit_bbox_refine", "ok", TaskMatch.word_idx, line)
               /\ edits < MaxEdits /\ edits' = edits + 1
       /\ UNCHANGED <<fe, labelerFrame, line_matches, task_type, task_match_idx,
                      split_task_x_coordinate, split_task_word_split_idx>>

\* execute_edit_bbox_task ("Save"), both editors
execute_edit_bbox_task ==
    LET line == CurLine
        k == TaskMatch.word_idx + 1
        modified_bbox == GetEditBbox(line.words[k].bounding_box, edit_margins)
        new == RefineBoundingBoxes(
                  [line EXCEPT !.words[k].bounding_box = modified_bbox], 1)
    IN /\ EditorOnPage /\ task_type = "EDITBBOX"
       /\ TaskMatchReadable /\ TaskMatch.is_word
       /\ IF ~FromLtrbAccepts(modified_bbox)
          THEN /\ last' = RanPlain("execute_edit_bbox_task", "raised",
                                   TaskMatch.word_idx, line)
               /\ UNCHANGED <<matched_ocr_pages, detached_line, line_matches, taskVars>>
          ELSE /\ StoreLine(new, FALSE, TRUE)
               /\ task_type' = "NONE"
               /\ task_match_idx' = NoIdx
               /\ edit_margins' = NoMargins
               /\ line_matches' = Redraw(new)
               /\ last' = RanPlain("execute_edit_bbox_task", "ok",
                                   TaskMatch.word_idx, line)
               /\ UNCHANGED <<split_task_x_coordinate, split_task_word_split_idx>>
       /\ edits < MaxEdits /\ edits' = edits + 1
       /\ UNCHANGED <<fe, labelerFrame>>

CropTypes == {"T", "B", "A"}

\* the box after the crop named by crop_type
Cropped(b, crop_type) ==
    IF crop_type = "T" THEN CropTop(b)
    ELSE IF crop_type = "B" THEN CropBottom(b)
    ELSE CropBottom(CropTop(b))

\* NiceGuiLineEditor.crop_words(crop_type): every word of the line
crop_words(crop_type) ==
    LET line == CurLine
        new == [line EXCEPT !.words = [k \in 1 .. Len(line.words) |->
                   [line.words[k] EXCEPT !.bounding_box = Cropped(@, crop_type)]]]
    IN /\ fe = "nicegui" /\ EditorOnPage
       /\ StoreLine(new, FALSE, TRUE)
       /\ line_matches' = Redraw(new)
       /\ last' = RanPlain("crop_words", "ok", NoIdx, line)
       /\ edits < MaxEdits /\ edits' = edits + 1
       /\ UNCHANGED <<fe, labelerFrame, taskVars>>

\* NiceGuiLineEditor.crop_word_top, crop_word_bottom and crop_word_both
crop_word(match, crop_type) ==
    LET line == CurLine
        new == [line EXCEPT !.words[match.word_idx + 1].bounding_box =
                   Cropped(@, crop_type)]
    IN /\ fe = "nicegui" /\ EditorOnPage /\ ButtonsShown /\ match.is_word
       /\ StoreLine(new, FALSE, TRUE)
       /\ line_matches' = Redraw(new)
       /\ last' = RanPlain("crop_word", "ok", match.word_idx, line)
       /\ edits < MaxEdits /\ edits' = edits + 1
       /\ UNCHANGED <<fe, labelerFrame, taskVars>>

\* delete_line: the notebook editor takes its line off the page and hides
\* itself (the editor of the next line is the one in use from then on), the
\* NiceGUI editor only asks the page editor to draw again
delete_line ==
    LET line == CurLine
    IN /\ EditorOnPage
       /\ IF fe = "ipynb"
          THEN /\ detached_line' = NoLine
               /\ matched_ocr_pages' =
                     [matched_ocr_pages EXCEPT ![current_page_idx] =
                         RefreshPageImages(
                            IF detached_line # NoLine THEN @
                            ELSE [@ EXCEPT !.lines = Tail(@)])]
               /\ line_matches' =
                     IF matched_ocr_pages'[current_page_idx].lines = <<>> THEN <<>>
                     ELSE CalculateLineMatches(matched_ocr_pages'[current_page_idx].lines[1], CurPage.has_image)
               /\ page_editor' = IF detached_line # NoLine THEN page_editor
                                 ELSE LineLeft(page_editor)
               /\ task_type' = "NONE"
               /\ task_match_idx' = NoIdx
               /\ split_task_x_coordinate' = NoIdx
               /\ split_task_word_split_idx' = NoIdx
               /\ edit_margins' = NoMargins
               /\ last' = RanPlain("delete_line", "ok", NoIdx, line)
          ELSE /\ UNCHANGED <<matched_ocr_pages, detached_line, line_matches, taskVars>>
               /\ page_editor' = LineChange(TRUE)
               /\ last' = [RanPlain("delete_line", "noop", NoIdx, line)
                             EXCEPT !.line_change = TRUE]
       /\ edits < MaxEdits /\ edits' = edits + 1
       /\ UNCHANGED <<fe, storeFrame>>

\* the words of a page given new boxes, boxes[l][k] for word k of line l
WithWordBoxes(page, boxes) ==
    [page EXCEPT !.lines = [l \in 1 .. Len(page.lines) |->
        [page.lines[l] EXCEPT !.words = [k \in 1 .. Len(page.lines[l].words) |->
            [page.lines[l].words[k] EXCEPT !.bounding_box = boxes[l][k]]]]]]

\* Page.refine_bounding_boxes(padding_px) needs the page image
PageRefineRaises(page) == ~page.has_image
PageRefineBoundingBoxes(page, padding_px) ==
    WithWordBoxes(page,
        [l \in 1 .. Len(page.lines) |->
            [k \in 1 .. Len(page.lines[l].words) |->
                Refine(page.lines[l].words[k].bounding_box, padding_px)]])

\* the check at the head of the word loop of expand_and_refine_all_bboxes
ExpandRaisesNever(page) == FALSE
ExpandRaises(page) ==
    /\ \E l \in 1 .. Len(page.lines) : page.lines[l].words # <<>>
    /\ ~page.has_image

\* expand_and_refine_all_bboxes of the labeler
expand_and_refine_all_bboxes ==
    LET idx == current_page_idx
        page == CurPage
        expanded == WithWordBoxes(page,
            [l \in 1 .. Len(page.lines) |->
                [k \in 1 .. Len(page.lines[l].words) |->
                    ExpandToContent(CropBottom(page.lines[l].words[k].bounding_box))]])
        op == "expand_and_refine_all_bboxes"
    IN /\ page # NoPage
       /\ IF ExpandRaises(page)
          THEN Ends(op, [Here EXCEPT !.raised = TRUE], idx)
          ELSE IF PageRefineRaises(expanded)
          THEN Ends(op, [Here EXCEPT !.cache[idx] = expanded, !.raised = TRUE], idx)
          ELSE Ends(op, RefreshUi([Here EXCEPT !.cache[idx] =
                                      PageRefineBoundingBoxes(expanded, 2)], idx), idx)

\* refine_all_bboxes of the labeler
refine_all_bboxes ==
    LET idx == current_page_idx
        page == CurPage
        op == "refine_all_bboxes"
    IN /\ page # NoPage
       /\ IF PageRefineRaises(page)
          THEN Ends(op, [Here EXCEPT !.raised = TRUE], idx)
          ELSE Ends(op, RefreshUi([Here EXCEPT !.cache[idx] =
                                      PageRefineBoundingBoxes(page, 2)], idx), idx)

\* refresh_page_images of the labeler ("Refresh Page Images")
refresh_page_images ==
    /\ CurPage # NoPage /\ CurPage.has_image
    /\ CurPage.overlay # Overlay(CurPage.lines)
    /\ matched_ocr_pages' =
          [matched_ocr_pages EXCEPT ![current_page_idx] = RefreshPageImages(@)]
    /\ UNCHANGED <<fe, labelerFrame, detached_line, line_matches, taskVars, edits, last>>

\* the line whose boxes are edited: a word one pixel wide over ink, and a
\* word at the right edge of the image over no ink
BoxLines ==
    { UpdateLineWithGroundTruth(
         Line(<<Word(<<"a">>, BBox(4, 0, 5, ImageH), <<>>, NoScore),
                Word(<<"b">>, OcrBox(3), <<>>, NoScore)>>,
              <<"a", " ", "b">>, <<>>, FALSE),
         << <<"a">>, <<"b">> >>, << <<"a">>, <<"b">> >>) }

\* the editor on a line of the first page
InitBoxes ==
    /\ fe \in {"ipynb", "nicegui"}
    /\ DefaultStart
    /\ \E line \in BoxLines :
          /\ matched_ocr_pages =
                [i \in PageIdxs |-> IF i = 0 THEN Page("ocr", TRUE, <<line>>)
                                    ELSE NoPage]
          /\ line_matches = CalculateLineMatches(line, TRUE)
    /\ json_files = [i \in PageIdxs |-> NoFile]
    /\ png_files = [i \in PageIdxs |-> FALSE]
    /\ detached_line = NoLine
    /\ task_type = "NONE"
    /\ task_match_idx = NoIdx
    /\ split_task_x_coordinate = NoIdx
    /\ split_task_word_split_idx = NoIdx
    /\ edit_margins = NoMargins
    /\ ocr_runs = [i \in PageIdxs |-> IF i = 0 THEN 1 ELSE 0]
    /\ saved_snapshot = [i \in PageIdxs |-> NotSaved]
    /\ page_editor = RebuildContentUi("SHOW_ALL_LINES", matched_ocr_pages[0], line_matches)
    /\ download = NoDownload
    /\ edits = 0
    /\ last = NoRun

NextBoxes ==
    \/ \E i \in 1 .. Len(line_matches) : start_edit_bbox_task(line_matches[i])
    \/ cancel_edit_bbox_task
    \/ \E margin \in 1 .. 4, amount \in MarginAmounts :
          edit_bbox_adjust_margin(margin, amount)
    \/ edit_bbox_refine
    \/ execute_edit_bbox_task
    \/ \E t \in CropTypes : crop_words(t)
    \/ \E i \in 1 .. Len(line_matches) : crop_word(line_matches[i], "A")
    \/ delete_line

SpecBoxes == InitBoxes /\ [][NextBoxes]_vars

\* the documents found for the second page: none, one saved by an earlier
\* session, one whose page has no line
PageFilesFound(idx) ==
    { NoFile,
      JsonFile(TRUE, <<EarlierPage(idx)>>, TRUE),
      JsonFile(TRUE, << [lines |-> <<>>] >>, TRUE) }

\* the labeler after its constructor: the first page read by the OCR engine,
\* the second one saved by an earlier session or not, its image there or not
InitPages ==
    /\ fe \in {"ipynb", "nicegui"}
    /\ DefaultStart
    /\ \E file \in PageFilesFound(1) :
          json_files = [i \in PageIdxs |-> IF i = 1 THEN file ELSE NoFile]
    /\ \E png \in BOOLEAN :
          png_files = [i \in PageIdxs |-> i = 1 /\ json_files[i].exists /\ png]
    /\ matched_ocr_pages = [i \in PageIdxs |-> IF i = 0 THEN OcrPage(0) ELSE NoPage]
    /\ ocr_runs = [i \in PageIdxs |-> IF i = 0 THEN 1 ELSE 0]
    /\ line_matches = CalculateLineMatches(OcrPage(0).lines[1], TRUE)
    /\ detached_line = NoLine
    /\ task_type = "NONE"
    /\ task_match_idx = NoIdx
    /\ split_task_x_coordinate = NoIdx
    /\ split_task_word_split_idx = NoIdx
    /\ edit_margins = NoMargins
    /\ saved_snapshot = [i \in PageIdxs |-> NotSaved]
    /\ page_editor = RebuildContentUi("SHOW_ALL_LINES", matched_ocr_pages[0], line_matches)
    /\ download = NoDownload
    /\ edits = 0
    /\ last = NoRun

NextPages ==
    \/ prev_page
    \/ next_page
    \/ expand_and_refine_all_bboxes
    \/ refine_all_bboxes
    \/ refresh_page_images

SpecPages == InitPages /\ [][NextPages]_vars

\* saving and reloading pages, with a copy of the page image that may fail
NextSave ==
    \/ prev_page
    \/ next_page
    \/ \E copied \in BOOLEAN : export_ocr_document(copied)
    \/ reload_ocr_from_file

SpecSave == InitPages /\ [][NextSave]_vars

----------------------------------------------------------------------------
(* Validation and the line filter on a page of two lines                   *)

\* mark_validated.  The notebook editor refuses a line with unmatched
\* ground-truth words or an empty ground-truth text; both editors end with
\* line_change_callback
mark_validated ==
    LET line == CurLine
        new == [line EXCEPT !.validated = TRUE]
    IN /\ HasEditor
       /\ IF /\ fe = "ipynb"
             /\ \/ line.unmatched_ground_truth_words # <<>>
                \/ GroundTruthText(line) = <<>>
          THEN /\ last' = RanPlain("mark_validated", "refused", NoIdx, line)
               /\ UNCHANGED <<matched_ocr_pages, detached_line, line_matches,
                              page_editor>>
          ELSE /\ StoreLine(new, FALSE, FALSE)
               /\ line_matches' = Redraw(new)
               /\ page_editor' = LineChange(TRUE)
               /\ last' = [RanPlain("mark_validated", "ok", NoIdx, line)
                             EXCEPT !.line_change = TRUE]
       /\ UNCHANGED <<fe, storeFrame, taskVars, edits>>

\* NiceGuiPageEditor.batch_mark_exact_matches_validated
batch_mark_exact_matches_validated ==
    /\ fe = "nicegui" /\ CurPage # NoPage
    /\ matched_ocr_pages' =
          [matched_ocr_pages EXCEPT ![current_page_idx].lines =
              [l \in 1 .. Len(@) |->
                  IF ExactMatch(@[l]) THEN [@[l] EXCEPT !.validated = TRUE]
                  ELSE @[l]]]
    /\ page_editor' =
          [RebuildVisibleLines(page_editor, matched_ocr_pages'[current_page_idx],
                               detached_line, line_matches)
              EXCEPT !.word_buttons = (task_type = "NONE")]
    /\ last' = [RanPlain("batch_mark_exact_matches_validated", "ok", NoIdx, NoLine)
                  EXCEPT !.line_change = TRUE]
    /\ UNCHANGED <<fe, storeFrame, detached_line, line_matches, taskVars, edits>>

LineMatching ==
    {"SHOW_ALL_LINES", "SHOW_ONLY_MISMATCHES", "SHOW_ONLY_UNVALIDATED_MISMATCHES"}

\* the radio buttons of the filter: _observe_show_exact_line_matches and
\* on_line_matching_change set the configuration and rebuild_content_ui
on_line_matching_change(new_value) ==
    /\ CurPage # NoPage
    /\ new_value # page_editor.line_matching_configuration
    /\ detached_line' = NoLine
    /\ task_type' = "NONE"
    /\ task_match_idx' = NoIdx
    /\ split_task_x_coordinate' = NoIdx
    /\ split_task_word_split_idx' = NoIdx
    /\ edit_margins' = NoMargins
    /\ line_matches' = IF CurPage.lines = <<>> THEN <<>>
                       ELSE CalculateLineMatches(CurPage.lines[1], CurPage.has_image)
    /\ page_editor' = RebuildContentUi(new_value, CurPage, line_matches')
    /\ last' = [RanPlain("on_line_matching_change", "ok", NoIdx, NoLine)
                  EXCEPT !.line_change = TRUE]
    /\ UNCHANGED <<fe, storeFrame, matched_ocr_pages, edits>>

\* the first and the second line of the page
FirstLines ==
    { IngestLine(<< <<"a">> >>, <<"a">>),
      IngestLine(<< <<"a">>, <<"b">> >>, <<"a", " ", "b">>),
      IngestLine(<< <<"a">> >>, <<"b", " ", "a", " ", "b">>),
      IngestLine(<< <<"a", "b">> >>, <<>>) }
SecondLines ==
    { IngestLine(<< <<"b">> >>, <<"b">>),
      IngestLine(<< <<"b">> >>, <<"a">>) }

InitLines ==
    /\ fe \in {"ipynb", "nicegui"}
    /\ DefaultStart
    /\ \E first \in FirstLines, second \in SecondLines :
          /\ matched_ocr_pages =
                [i \in PageIdxs |-> IF i = 0 THEN Page("ocr", TRUE, <<first, second>>)
                                    ELSE NoPage]
          /\ line_matches = CalculateLineMatches(first, TRUE)
    /\ json_files = [i \in PageIdxs |-> NoFile]
    /\ png_files = [i \in PageIdxs |-> FALSE]
    /\ detached_line = NoLine
    /\ task_type = "NONE"
    /\ task_match_idx = NoIdx
    /\ split_task_x_coordinate = NoIdx
    /\ split_task_word_split_idx = NoIdx
    /\ edit_margins = NoMargins
    /\ ocr_runs = [i \in PageIdxs |-> IF i = 0 THEN 1 ELSE 0]
    /\ saved_snapshot = [i \in PageIdxs |-> NotSaved]
    /\ page_editor = RebuildContentUi("SHOW_ALL_LINES", matched_ocr_pages[0], line_matches)
    /\ download = NoDownload
    /\ edits = 0
    /\ last = NoRun

NextLines ==
    \/ mark_validated
    \/ batch_mark_exact_matches_validated
    \/ \E c \in LineMatching : on_line_matching_change(c)
    \/ delete_line
    \/ \E i \in 1 .. Len(line_matches) : delete_match(line_matches[i])
    \/ \E i \in 1 .. Len(line_matches) : merge_right(line_matches[i])
    \/ \E i \in 1 .. Len(line_matches), t \in GtInputs :
          update_gt_text(line_matches[i], t)
    \/ \E i \in 1 .. Len(line_matches) : start_split_task(line_matches[i])
    \/ cancel_split_task
    \/ execute_split

SpecLines == InitLines /\ [][NextLines]_vars

----------------------------------------------------------------------------
(* The project downloader                                                  *)

\* DPDownloader.download_project_pages, one step of it at a time; a run that
\* ended, with or without an exception, can be started again.  session.get
\* of an image ends with the image, with the body of a refused request (rate
\* limit; response.ok is not looked at), or with an exception of the network
\* after open(filename, "wb") made the file
download_project_pages ==
    /\ \/ /\ download.pc \in {"idle", "failed", "done"}
          /\ \E listed \in BOOLEAN :
                download' = IF listed
                            THEN [download EXCEPT !.pc = "images", !.next = 1]
                            ELSE [download EXCEPT !.pc = "failed"]
       \/ /\ download.pc = "images" /\ download.next <= ProjectPages
          /\ IF download.images[download.next] # "absent"
             THEN download' = [download EXCEPT !.next = @ + 1]
             ELSE \E fetched \in {"complete", "error", "exception"} :
                     download' =
                        IF fetched = "exception"
                        THEN [download EXCEPT !.images[download.next] = "empty",
                                              !.pc = "failed"]
                        ELSE [download EXCEPT !.images[download.next] = fetched,
                                              !.next = @ + 1]
       \/ /\ download.pc = "images" /\ download.next > ProjectPages
          /\ download' = IF download.pages_json
                         THEN [download EXCEPT !.pc = "done"]
                         ELSE [download EXCEPT !.pc = "texts", !.next = 1]
       \/ /\ download.pc = "texts" /\ download.next <= ProjectPages
          /\ \E fetched \in BOOLEAN :
                download' = IF fetched
                            THEN [download EXCEPT !.next = @ + 1]
                            ELSE [download EXCEPT !.pc = "failed"]
       \/ /\ download.pc = "texts" /\ download.next > ProjectPages
          /\ download' = [download EXCEPT !.pages_json = TRUE, !.pc = "done"]
    /\ UNCHANGED <<fe, pgdp_export, current_page_idx, current_page_name,
                   json_files, png_files, ocr_runs, saved_snapshot, page_editor, matched_ocr_pages, detached_line,
                   line_matches, taskVars, edits, last>>

\* the download directory of a project is empty; no labeler is in use
InitDownload ==
    /\ InitPages
    /\ fe = "ipynb"
    /\ json_files = [i \in PageIdxs |-> NoFile]

SpecDownload == InitDownload /\ [][download_project_pages]_vars

----------------------------------------------------------------------------
(* Further properties of the labeler and the editors                      *)


\* import_ocr_document refuses a document that has not exactly one page or
\* names no source image
MalformedDocument(file) ==
    file.exists /\ (Len(file.pages) # 1 \/ ~file.has_source_path)

\* C11: a handler that imports a saved document with not exactly one page, or
\* without a source image path, ends with a failure reaching its caller and
\* leaves the pages cached before as they were.
C11_MalformedImportFails ==
    (/\ last.op \in {"refresh_ui", "reload_ocr_from_file"}
     /\ MalformedDocument(json_files[current_page_idx]))
    => (last.outcome = "raised" /\ last.cached_kept)

\* C14: after a manual ground-truth edit, Copy Line to GT or the batch copy,
\* every word that was given a ground-truth text has the similarity score of
\* its OCR text against that ground-truth text.
C14_AssignedGroundTruthIsScored ==
    LET cur == CurLine.words
        pre == last.pre.words
        assigned == IF last.op = "update_gt_text" THEN {last.arg + 1}
                    ELSE IF last.op = "copy_ocr_to_gt" THEN 1 .. Len(cur)
                    ELSE IF last.op = "batch_copy_ocr_to_gt"
                    THEN {k \in 1 .. Len(cur) :
                             pre[k].text # <<>> /\ pre[k].ground_truth_text = <<>>}
                    ELSE {}
    IN \A k \in assigned :
          cur[k].match_score = FuzzScore(cur[k].text, cur[k].ground_truth_text)

\* a manual edit gave a word a ground-truth text that differs from its OCR
\* text
C14_Witness ==
    /\ last.op = "update_gt_text"
    /\ CurLine.words[last.arg + 1].ground_truth_text # CurLine.words[last.arg + 1].text
    /\ CurLine.words[last.arg + 1].ground_truth_text # last.pre.words[last.arg + 1].ground_truth_text

\* C15: a split that was carried out on a line whose base ground-truth text is
\* empty or absent ends without an exception, with every word unmatched and
\* without ground truth, and with no unmatched ground-truth words.
C15_SplitWithoutBaseText ==
    (/\ last.op = "execute_split"
     /\ last.pre.base_ground_truth_text \in {NoText, <<>>}
     /\ Len(CurLine.words) = Len(last.pre.words) + 1)
    => (/\ last.outcome = "ok"
        /\ \A k \in 1 .. Len(CurLine.words) :
              /\ CurLine.words[k].ground_truth_text = <<>>
              /\ CurLine.words[k].match_score = NoScore
        /\ CurLine.unmatched_ground_truth_words = <<>>)

\* C16: while a split task points at a word, the offset execute_split hands
\* to split_word is the split column divided by the width of the word's own
\* image, in both front-ends.
C16_SplitOffsetIsRelativeToWord ==
    (task_type = "SPLIT" /\ HasEditor /\ TaskMatchReadable /\ TaskMatch.is_word)
    => SplitOffsetDenominator(TaskMatch) = TaskMatch.img_width

\* C17: while a split task points at a word, i.e. whenever Execute Split can
\* be pressed, the split column lies strictly between 0 and the width of the
\* word image and the character index lies between 0 and the length of the
\* word's text.
C17_SplitParametersAreClamped ==
    (task_type = "SPLIT" /\ HasEditor /\ TaskMatchReadable /\ TaskMatch.is_word)
    => (/\ 0 < split_task_x_coordinate
        /\ split_task_x_coordinate < TaskMatch.img_width
        /\ 0 <= split_task_word_split_idx
        /\ split_task_word_split_idx <= Len(TaskMatch.ocr_text))

\* the number of OCR word entries of a display list before position i
WordsBefore(m, i) == Cardinality({p \in 1 .. i - 1 : m[p].is_word})

\* C19: the display list calculate_line_matches builds for the line of the
\* editor holds every OCR word once in line order and every unmatched
\* ground-truth word once in the order of unmatched_ground_truth_words, each
\* unmatched entry after the OCR word at its insertion index; its length is
\* the number of words plus the number of unmatched entries and every
\* entry's idx is its position.
C19_DisplayListIsWordsAndUnmatchedInOrder ==
    HasEditor =>
       LET line == CurLine
           n == Len(line.words)
           un == line.unmatched_ground_truth_words
           m == CalculateLineMatches(line, TRUE)
           ws == SelectSeq(m, LAMBDA e : e.is_word)
           us == SelectSeq(m, LAMBDA e : ~e.is_word)
       IN /\ Len(m) = n + Len(un)
          /\ \A i \in 1 .. Len(m) : m[i].idx = i - 1
          /\ Len(ws) = n
          /\ \A k \in 1 .. Len(ws) :
                ws[k].word_idx = k - 1 /\ ws[k].ocr_text = line.words[k].text
          /\ Len(us) = Len(un)
          /\ \A j \in 1 .. Len(us) :
                us[j].gt_text = un[j][2] /\ us[j].word_idx = un[j][1] + 1
          /\ \A i \in 1 .. Len(m) :
                ~m[i].is_word => WordsBefore(m, i) = Min2(m[i].word_idx, n)

GeometryOps ==
    {"execute_split", "merge_left", "merge_right", "delete_word", "delete_line",
     "execute_edit_bbox_task", "edit_bbox_refine", "crop_words", "crop_word",
     "expand_and_refine_all_bboxes", "refine_all_bboxes"}

\* C13: when a handler that changes geometry has ended, the overlays of the
\* current page show the word boxes the page has.
C13_GeometryChangeRedrawsOverlays ==
    (last.op \in GeometryOps /\ CurPage # NoPage /\ CurPage.has_image)
    => CurPage.overlay = Overlay(CurPage.lines)

BoxInImage(b) ==
    /\ 0 <= b.minX /\ b.minX <= b.maxX /\ b.maxX <= ImageW
    /\ 0 <= b.minY /\ b.minY <= b.maxY /\ b.maxY <= ImageH

\* C18: after Save of a bounding-box edit, whatever the margins were, either
\* the word's box lies in the image with its edges in order, or Save was
\* refused and the line is as it was.
C18_SavedBoxIsInImageOrRefused ==
    last.op = "execute_edit_bbox_task" =>
       IF last.outcome = "ok"
       THEN BoxInImage(CurLine.words[last.arg + 1].bounding_box)
       ELSE CurLine = last.pre

\* Save stored a box other than the one the word had
C18_Witness ==
    /\ last.op = "execute_edit_bbox_task" /\ last.outcome = "ok"
    /\ CurLine.words[last.arg + 1].bounding_box #
          last.pre.words[last.arg + 1].bounding_box

\* C21: merge left on the word at index i+1 ends as merge right on the word
\* at index i does from the same line: the same line is stored and the same
\* callbacks (line change, page image change) are called.
C21_MergeLeftIsMergeRightMirrored ==
    (/\ last.op = "merge_left"
     /\ last.arg >= 1 /\ last.arg < Len(last.pre.words))
    => LET right == MergeRightEnds(last.pre, last.arg - 1)
       IN /\ last.outcome = "ok"
          /\ CurLine = right.line
          /\ last.line_change = right.line_change
          /\ right.page_image_change => CurPage.overlay = Overlay(CurPage.lines)

\* C22: for every page saved in this session, also by an export that
\* failed part-way, the labeled-OCR directory holds the JSON document
\* together with the page image its source_path names.
C22_SavedDocumentHasItsImage ==
    \A i \in PageIdxs :
        saved_snapshot[i] # NotSaved => (json_files[i].exists /\ png_files[i])

\* C23: when a run of download_project_pages has completed, after whatever
\* runs were interrupted before it, every page image on disk is complete and
\* pages.json is there.
C23_CompletedDownloadIsComplete ==
    download.pc = "done" =>
       /\ \A i \in 1 .. ProjectPages : download.images[i] = "complete"
       /\ download.pages_json


\* C24: Delete Line takes exactly the editor's line off the page and keeps
\* every other line as it was and in its place, in both front-ends.  The
\* editor in use is the one of the first line of the page.
C24_DeleteLineRemovesThatLine ==
    [][(last'.op = "delete_line" /\ edits' = edits + 1 /\ detached_line = NoLine)
       => matched_ocr_pages'[current_page_idx].lines = Tail(CurPage.lines)]_vars

\* C25: in the NiceGUI editor, merge left on the OCR word at line index
\* i >= 1 absorbs it into the OCR word at line index i-1, also when an
\* unmatched ground-truth placeholder is displayed between the two.
C25_NiceguiMergeLeftTakesLineNeighbour ==
    (/\ fe = "nicegui" /\ last.op = "merge_left"
     /\ last.arg >= 1 /\ last.arg < Len(last.pre.words))
    => /\ last.outcome = "ok"
       /\ Texts(CurLine) = Texts(MergeInto(last.pre, last.arg, last.arg + 1))

\* C26: deleting the placeholder of an unmatched ground-truth word removes
\* the one (insertion index, text) entry it displays from
\* unmatched_ground_truth_words; the other entries, in order, and the OCR
\* words of the line are as before.  The placeholder of the entry with
\* insertion index i carries word_idx i + 1.
C26_DeleteUnmatchedRemovesOneEntry ==
    LET pre == last.pre.unmatched_ground_truth_words
    IN last.op = "delete_unmatched"
       => /\ CurLine.words = last.pre.words
          /\ \E k \in 1 .. Len(pre) :
                /\ pre[k][1] + 1 = last.arg
                /\ CurLine.unmatched_ground_truth_words = RemoveAt(pre, k)

\* C27: in the notebook page editor, whenever rebuild_visible_lines has run
\* (after a filter change or a line-change callback), line_editors has one
\* editor per line of the page and line_editors[i] edits page.lines[i].
C27_LineEditorsFollowThePage ==
    (fe = "ipynb" /\ last.line_change)
    => /\ Len(page_editor.line_editors) = Len(CurPage.lines)
       /\ \A i \in 1 .. Len(CurPage.lines) : page_editor.line_editors[i] = i

\* C28: while a split or bounding-box edit task is active on a line,
\* task_match_idx is an index into the line's current match list and the
\* entry there is an OCR word; no action available during the task leaves
\* the index stale.
C28_TaskIndexStaysValid ==
    (task_type # "NONE" /\ HasEditor)
    => TaskMatchReadable /\ TaskMatch.is_word

\* C29: a line whose line_editor_validated attribute is true has no
\* unmatched ground-truth words and a ground-truth text that is not empty,
\* in every reachable state of either front-end.
C29_ValidatedLineIsMatched ==
    \A l \in 1 .. Len(CurPage.lines) :
        CurPage.lines[l].validated
        => /\ CurPage.lines[l].unmatched_ground_truth_words = <<>>
           /\ GroundTruthText(CurPage.lines[l]) # <<>>

\* C30: what rebuild_visible_lines shows, in both front-ends: with "All
\* Lines" every line of the page that has a match row; with "Only
\* Mismatches" no line that is an exact match; with "Only Unvalidated
\* Mismatches" no exact match and no line marked validated.
C30_FilterDecidesVisibility ==
    LET config == page_editor.line_matching_configuration
        shown == {page_editor.boxes[k] : k \in 1 .. Len(page_editor.boxes)}
        place(e) == page_editor.line_editors[e]
    IN last.line_change
       => /\ config = "SHOW_ALL_LINES"
             => \A i \in 1 .. Len(CurPage.lines) :
                   CalculateLineMatches(CurPage.lines[i], CurPage.has_image) # <<>>
                   => \E e \in shown : place(e) = i
          /\ config # "SHOW_ALL_LINES"
             => \A e \in shown :
                   place(e) # 0 => ~ExactMatch(CurPage.lines[place(e)])
          /\ config = "SHOW_ONLY_UNVALIDATED_MISMATCHES"
             => \A e \in shown :
                   place(e) # 0 => ~CurPage.lines[place(e)].validated

----------------------------------------------------------------------------
(* Construction of a labeler and navigation between the pages              *)

\* number of pages of the export a labeler is constructed over
StartPages == 3

\* the arguments of the constructor: no page name, the png_file of a page of
\* the export or of no page; a page index around the export's range
StartNames == {<<>>} \cup { PngFile(i) : i \in 0 .. StartPages }
StartIdxs == (0 - 1) .. StartPages

\* the keys matched_ocr_pages may get: Python takes a negative page index
\* from the end of pgdp_export.pages
StartKeys == (0 - StartPages) .. (StartPages - 1)

\* a page an earlier labeler instance read from another export
OtherExportPage == Page("ocr", TRUE, <<IngestLine(<< <<"b">> >>, <<"b">>)>>)

\* matched_ocr_pages when the constructor begins.  The NiceGUI labeler
\* assigns a new dict in __init__; the notebook labeler never assigns the
\* attribute, so every instance uses the dict of the class, which holds
\* what earlier instances of the process cached
EarlierCaches ==
    IF fe = "ipynb"
    THEN { [i \in StartKeys |-> IF i \in keys THEN OtherExportPage ELSE NoPage] :
              keys \in {{}, {0}, 0 .. (StartPages - 1)} }
    ELSE { [i \in StartKeys |-> NoPage] }

\* the labeler after its constructor, which chooses the start page and ends
\* with refresh_ui
InitStart ==
    /\ fe \in {"ipynb", "nicegui"}
    /\ pgdp_export = Export(StartPages)
    /\ json_files = [i \in StartKeys |-> NoFile]
    /\ png_files = [i \in StartKeys |-> FALSE]
    /\ \E start_page_name \in StartNames, start_page_idx \in StartIdxs,
          earlier \in EarlierCaches :
          LET started == StartPage(pgdp_export, start_page_name, start_page_idx)
              st == RefreshUi(LabelerState(earlier, [i \in StartKeys |-> 0], FALSE),
                              started.idx)
          IN /\ ~started.raised
             /\ ~st.raised
             /\ current_page_idx = started.idx
             /\ current_page_name = started.name
             /\ matched_ocr_pages = st.cache
             /\ ocr_runs = st.runs
             /\ last = [RanPlain("__init__", "ok", start_page_idx, NoLine)
                          EXCEPT !.start_page_name = start_page_name]
    /\ line_matches =
          CalculateLineMatches(matched_ocr_pages[current_page_idx].lines[1], TRUE)
    /\ detached_line = NoLine
    /\ task_type = "NONE"
    /\ task_match_idx = NoIdx
    /\ split_task_x_coordinate = NoIdx
    /\ split_task_word_split_idx = NoIdx
    /\ edit_margins = NoMargins
    /\ saved_snapshot = [i \in StartKeys |-> NotSaved]
    /\ page_editor = RebuildContentUi("SHOW_ALL_LINES",
                                      matched_ocr_pages[current_page_idx], line_matches)
    /\ download = NoDownload
    /\ edits = 0

NextStart ==
    \/ prev_page
    \/ next_page
    \/ \E page_num \in GoToInputs : go_to_page(page_num)

SpecStart == InitStart /\ [][NextStart]_vars

\* C31: after construction and after every Previous, Next and Go-to-page the
\* current page index is an index of the export's page list, from 0 to the
\* number of pages minus one
C31_PageIndexAlwaysValid ==
    0 <= current_page_idx /\ current_page_idx <= Len(pgdp_export) - 1

\* C32: every page index from 0 to the number of pages minus one, entered
\* and sent with Go, passes the checks of go_to_page and of the setter, which
\* then makes it the current page index
C32_GoReachesEveryPage ==
    \A k \in 0 .. (Len(pgdp_export) - 1) :
        GoToPageAllowed(k) /\ SetterAccepts(k)

\* C33: a labeler constructed with the start_page_name of a page of the
\* export starts on that page's index and shows that page's name, whatever
\* start_page_idx was given
C33_StartPageNameChoosesPage ==
    (/\ last.op = "__init__"
     /\ PageIndexByName(pgdp_export, last.start_page_name) >= 0)
    => /\ current_page_idx = PageIndexByName(pgdp_export, last.start_page_name)
       /\ current_page_name = Stem(last.start_page_name)

\* C36: the OCR page shown is never one an earlier labeler instance cached
\* from another export, and a labeler that was just constructed holds no
\* cached page besides the one it read for its start page
C36_CacheBelongsToInstance ==
    /\ matched_ocr_pages[current_page_idx] # OtherExportPage
    /\ last.op = "__init__" =>
          \A k \in DOMAIN matched_ocr_pages \ {current_page_idx} :
              matched_ocr_pages[k] = NoPage

\* C34: in the notebook editor the character split index of a split task is
\* half the length of the word's text, rounded down, when the task starts,
\* and lies between 0 and the length of that text while the task is shown
C34_SplitIndexStartsAtHalf ==
    [][(fe = "ipynb" /\ task_type' = "SPLIT")
       => LET ocr_text == TaskMatch'.ocr_text
          IN /\ task_type # "SPLIT" =>
                   split_task_word_split_idx' = Len(ocr_text) \div 2
             /\ 0 <= split_task_word_split_idx'
             /\ split_task_word_split_idx' <= Len(ocr_text)]_vars

\* C37: in the notebook editor, after Refine the edit box previewed from the
\* word's box and the new margins is the refined box, edge by edge
C37_RefinePreviewIsRefinedBox ==
    [][(/\ fe = "ipynb"
        /\ edit_bbox_refine
        /\ FromLtrbAccepts(GetEditBbox(
              CurLine.words[TaskMatch.word_idx + 1].bounding_box, edit_margins)))
       => GetEditBbox(CurLine.words[TaskMatch.word_idx + 1].bounding_box,
                      edit_margins')
          = Refine(GetEditBbox(CurLine.words[TaskMatch.word_idx + 1].bounding_box,
                               edit_margins), 1)]_vars

\* C35: no move, margin adjustment or Refine press of a task changes the
\* words of the line, and a cancel ends with task type NONE and the words
\* unchanged, so that after a cancel the line is as it was when the task was
\* started
C35_CancelLeavesWordsAsStarted ==
    [][/\ (cancel_split_task \/ cancel_edit_bbox_task)
          => task_type' = "NONE" /\ CurLine' = CurLine
       /\ (\/ \E amount \in PixelAmounts : split_move_pixels(amount)
           \/ \E percent \in PercentAmounts : split_move_percent(percent)
           \/ \E amount \in TextAmounts : split_move_text(amount)
           \/ \E margin \in 1 .. 4, amount \in MarginAmounts :
                 edit_bbox_adjust_margin(margin, amount)
           \/ edit_bbox_refine)
          => CurLine' = CurLine]_vars

====
